---------------------------- MODULE Spec2Model ----------------------------
(***************************************************************************)
(* A model of the HL7 standards-development dashboard:                     *)
(*   - app/data_service.py      (DataService: the KPI indicator store and  *)
(*                               the KPI metrics engine),                  *)
(*   - app/financial_service.py (FinancialDataService: the cached          *)
(*                               financial snapshot and its queries),      *)
(*   - app/financial_parser.py  (Form990Parser),                           *)
(*   - app/main.py              (the HTTP handlers),                       *)
(*   - data/csv_to_json_converter.py (the ingestion step).                 *)
(*                                                                         *)
(* Conventions.                                                            *)
(*   Optional[T]: None is <<>>, a present value v is <<v>>.                *)
(*   str that the code takes apart (period labels, year keys): a sequence  *)
(*   of character codes, so that sorted(), split("-"), startswith() and    *)
(*   dict lookup are computed as Python computes them.                     *)
(*   float: an exact rational [n, d] in lowest terms with d > 0.  The      *)
(*   rounding of IEEE doubles is not modelled.                             *)
(***************************************************************************)
EXTENDS Integers, Sequences, FiniteSets, TLC

VARIABLES
    \* The metrics engine applied to one indicator of a loaded catalog:
    kpi_periods,     \* self._data.metadata.time_periods
    kpi_indicator,   \* the KPIIndicator the engine is called with
    calc_pc,         \* "ready", then the name of the function that ran
    calc_out         \* what that function returned or raised

calcVars == <<kpi_periods, kpi_indicator, calc_pc, calc_out>>

VARIABLES
    \* DataService and its callers:
    json_file,       \* data/processed/kpi_data.json
    data,            \* self._data, the catalog in memory
    reloads,         \* reload_data calls so far
    q_pc,            \* where the running query is ("idle": none runs)
    q_op,            \* the query: "cards", "summary" or "dashboard"
    q_steward,       \* its steward argument
    q_indicators,    \* cards: the indicators still to be made into cards
    q_cards,         \* cards: the cards made so far
    q_loc,           \* the locals of the create_kpi_card call in progress
    q_summary,       \* summary: the counts, then the KPISummary
    q_result,        \* what the query returned or raised
    q_seen,          \* the catalogs self._data held while the query ran
    queries,         \* queries started so far
    http_resp        \* the last response of GET /api/indicators/{id}

svcVars == <<json_file, data, reloads, q_pc, q_op, q_steward, q_indicators,
             q_cards, q_loc, q_summary, q_result, q_seen, queries, http_resp>>

VARIABLES
    \* FinancialDataService and its callers:
    xml_dir,         \* data/990s: what each form file holds
    cache_file,      \* data/processed/financial_data.json
    heap,            \* the FinancialHealthMetrics objects made so far
    cached_data,     \* self._cached_data: None or a reference into heap
    refreshes,       \* refresh_financial_data calls so far
    f_pc,            \* where the running financial query is
    f_op,            \* the query: "summary", "chart" or "table"
    f_metrics,       \* its local variable metrics, a reference into heap
    f_loc,           \* its other locals
    f_result,        \* what the query returned or raised
    f_seen,          \* the snapshots self._cached_data held while it ran
    f_queries        \* financial queries started so far

finVars == <<xml_dir, cache_file, heap, cached_data, refreshes, f_pc, f_op,
             f_metrics, f_loc, f_result, f_seen, f_queries>>

VARIABLES
    \* Form990Parser on a batch of documents:
    p_batch,         \* the *.xml files of data_directory, in file-name order
    p_pc,            \* "ready", then the name of the method that ran
    p_out,           \* what that method returned or raised
    \* one call of a DataService method on the catalog it holds
    s_call,          \* the method called and its arguments, None before
    s_pc,            \* "ready", then "returned"
    s_out            \* what the method returned

parseVars == <<p_batch, p_pc, p_out>>

storeVars == <<s_call, s_pc, s_out>>

vars == <<calcVars, svcVars, finVars, parseVars, storeVars>>

(***************************************************************************)
(* Optional values                                                         *)
(***************************************************************************)
None == <<>>

Some(v) == <<v>>

IsNone(o) == o = <<>>

IsSome(o) == o # <<>>

Val(o) == o[1]

(***************************************************************************)
(* float arithmetic as exact rationals                                     *)
(***************************************************************************)
Abs(i) == IF i < 0 THEN -i ELSE i

RECURSIVE Gcd(_, _)
Gcd(a, b) == IF b = 0 THEN a ELSE Gcd(b, a % b)

\* The rational n/d (d # 0) in lowest terms with a positive denominator.
Rat(n, d) ==
    LET g == Gcd(Abs(n), Abs(d))
        s == IF d < 0 THEN -1 ELSE 1
    IN  [n |-> (s * n) \div g, d |-> (s * d) \div g]

R(i) == [n |-> i, d |-> 1]

RAdd(a, b) == Rat(a.n * b.d + b.n * a.d, a.d * b.d)

RSub(a, b) == Rat(a.n * b.d - b.n * a.d, a.d * b.d)

RMul(a, b) == Rat(a.n * b.n, a.d * b.d)

\* a / b for b # 0
RDiv(a, b) == Rat(a.n * b.d, a.d * b.n)

RAbs(a) == [n |-> Abs(a.n), d |-> a.d]

RIsZero(a) == a.n = 0

RPos(a) == a.n > 0

RNeg(a) == a.n < 0

RLess(a, b) == a.n * b.d < b.n * a.d

(***************************************************************************)
(* Period labels: strings as sequences of character codes                  *)
(***************************************************************************)
\* ord("-"), the separator of split("-") and of the "YYYY-Txx" labels
Hyphen == 45

\* "2024"
L2024 == <<50, 48, 50, 52>>

\* "2025"
L2025 == <<50, 48, 50, 53>>

\* "2025-T1"
L2025T1 == L2025 \o <<Hyphen, 84, 49>>

\* "2025-T2"
L2025T2 == L2025 \o <<Hyphen, 84, 50>>

\* The period labels of the model: both forms of the convention, two
\* sub-periods of one year, and a label of another year.
Labels == {L2024, L2025, L2025T1, L2025T2}

\* Python's str < str: lexicographic by code point, a proper prefix first.
RECURSIVE StrLess(_, _)
StrLess(a, b) ==
    IF b = <<>> THEN FALSE
    ELSE IF a = <<>> THEN TRUE
    ELSE IF a[1] # b[1] THEN a[1] < b[1]
    ELSE StrLess(Tail(a), Tail(b))

\* s.startswith(p)
StartsWith(s, p) == Len(p) <= Len(s) /\ SubSeq(s, 1, Len(p)) = p

\* "-" in s
HasHyphen(s) == \E i \in 1..Len(s) : s[i] = Hyphen

\* s.split("-")[0]: the text before the first hyphen (all of s without one).
RECURSIVE SplitFirst(_)
SplitFirst(s) ==
    IF s = <<>> \/ s[1] = Hyphen THEN <<>>
    ELSE <<s[1]>> \o SplitFirst(Tail(s))

\* Insert x into the sorted sequence s, after the elements not greater
\* than it (sorted() is stable).
RECURSIVE InsertStr(_, _)
InsertStr(x, s) ==
    IF s = <<>> THEN <<x>>
    ELSE IF StrLess(x, s[1]) THEN <<x>> \o s
    ELSE <<s[1]>> \o InsertStr(x, Tail(s))

\* The list as it is stored, not sorted.
StoredOrder(s) == s

\* sorted(s) of a list of strings
RECURSIVE SortedStrs(_)
SortedStrs(s) ==
    IF s = <<>> THEN <<>>
    ELSE InsertStr(s[Len(s)], SortedStrs(SubSeq(s, 1, Len(s) - 1)))

Range(s) == {s[i] : i \in 1..Len(s)}

\* s[-1], s[-2] of a sequence long enough
Last(s) == s[Len(s)]

Last2(s) == s[Len(s) - 1]

\* dict.get(key): Optional
Get(dict, key) == IF key \in DOMAIN dict THEN Some(dict[key]) ELSE None

(***************************************************************************)
(* Outcomes of a call: a returned value or a raised exception              *)
(***************************************************************************)
Ok(v) == [exc |-> "", ret |-> v]

Raise(e) == [exc |-> e]

IsOk(o) == o.exc = ""

(***************************************************************************)
(* app/models.py and app/data_service.py: the KPI metrics engine.          *)
(* A catalog (KPIData) is [time_periods, indicators]: metadata.time_periods*)
(* and the indicator dictionary in insertion order, as a sequence.  An     *)
(* indicator is [id, name, domain, stewards, tags, target, targets,        *)
(* target_operation, measurements]; a measurement is [value, target].      *)
(***************************************************************************)

\* The change_pct of calculate_trend for the raw values current and previous.
ChangePctWrongDenominator(current_value, previous_value) ==
    IF RIsZero(previous_value)
    THEN IF RPos(current_value) THEN R(100) ELSE R(0)
    ELSE RMul(RDiv(RSub(current_value, previous_value), previous_value), R(100))

ChangePct(current_value, previous_value) ==
    IF RIsZero(previous_value)
    THEN IF RPos(current_value) THEN R(100) ELSE R(0)
    ELSE IF \/ (RNeg(previous_value) /\ RPos(current_value))
            \/ (RPos(previous_value) /\ RNeg(current_value))
         THEN RMul(RDiv(RSub(current_value, previous_value),
                        RAbs(previous_value)), R(100))
         ELSE RMul(RDiv(RSub(current_value, previous_value),
                        previous_value), R(100))

\* The direction label of calculate_trend.
TrendLabel(change_pct) ==
    IF RPos(change_pct) THEN "up"
    ELSE IF RNeg(change_pct) THEN "down"
    ELSE "stable"

\* calculate_trend.  periodsChecked is the time-period list whose length
\* the guard of line 65 tests, periodsSorted the one line 71 sorts: the two
\* are separate reads of self._data.
calculate_trend(periodsChecked, periodsSorted, indicator) ==
    IF Len(periodsChecked) < 2 THEN Ok(None)
    ELSE IF Len(periodsSorted) < 2 THEN Raise("IndexError")
    ELSE
      LET time_periods == SortedStrs(periodsSorted)
          current_measurement == Get(indicator.measurements, Last(time_periods))
          previous_measurement == Get(indicator.measurements, Last2(time_periods))
      IN  IF IsNone(current_measurement) \/ IsNone(previous_measurement)
          THEN Ok(None)
          ELSE IF \/ IsNone(Val(current_measurement).value)
                  \/ IsNone(Val(previous_measurement).value)
          THEN Ok(None)
          ELSE
            LET current_value == R(Val(Val(current_measurement).value))
                previous_value == R(Val(Val(previous_measurement).value))
                change_pct == ChangePct(current_value, previous_value)
            IN  Ok(Some([current |-> current_value,
                         previous |-> previous_value,
                         change_pct |-> change_pct,
                         trend |-> TrendLabel(change_pct)]))

\* sum(values) of the values of the measurements in the set ps of periods
RECURSIVE SumValues(_, _)
SumValues(measurements, ps) ==
    IF ps = {} THEN 0
    ELSE LET p == CHOOSE q \in ps : TRUE
         IN  Val(measurements[p].value) + SumValues(measurements, ps \ {p})

\* current_period.split("-")[0] if "-" in current_period else None
CurrentYear(current_period) ==
    IF HasHyphen(current_period) THEN Some(SplitFirst(current_period)) ELSE None

\* The periods whose readings enter the annual aggregate (lines 140-142).
YearPeriods(indicator, current_year) ==
    {p \in DOMAIN indicator.measurements :
        StartsWith(p, current_year) /\ IsSome(indicator.measurements[p].value)}

\* The annual figure compared with an annual target (lines 139-150).
YearValueMeanOverAllPeriods(indicator, current_year) ==
    LET ps == YearPeriods(indicator, current_year)
        all == {p \in DOMAIN indicator.measurements : StartsWith(p, current_year)}
    IN  IF ps # {}
        THEN IF indicator.target_operation = Some("average")
             THEN Rat(SumValues(indicator.measurements, ps), Cardinality(all))
             ELSE R(SumValues(indicator.measurements, ps))
        ELSE R(0)

YearValueAlwaysSum(indicator, current_year) ==
    LET ps == YearPeriods(indicator, current_year)
    IN  IF ps # {} THEN R(SumValues(indicator.measurements, ps)) ELSE R(0)

YearValue(indicator, current_year) ==
    LET ps == YearPeriods(indicator, current_year)
    IN  IF ps # {}
        THEN IF indicator.target_operation = Some("average")
             THEN Rat(SumValues(indicator.measurements, ps), Cardinality(ps))
             ELSE R(SumValues(indicator.measurements, ps))
        ELSE R(0)

\* Lines 158-162: the progress for the comparison value and the target.
ProgressClamped(current_value, target) ==
    IF RIsZero(target)
    THEN IF RIsZero(current_value) THEN R(100) ELSE R(0)
    ELSE LET p == RMul(RDiv(current_value, target), R(100))
         IN  IF RLess(R(100), p) THEN R(100) ELSE p

Progress(current_value, target) ==
    IF RIsZero(target)
    THEN IF RIsZero(current_value) THEN R(100) ELSE R(0)
    ELSE RMul(RDiv(current_value, target), R(100))

\* Lines 130-156: the target source.  The result is [type, target, value]:
\* value is the local current_value as it stands at line 158.
ResolveTargetLegacyFirst(indicator, current_measurement, current_year) ==
    IF IsSome(current_measurement.target)
    THEN [type |-> "period", target |-> Some(R(Val(current_measurement.target))),
          value |-> R(Val(current_measurement.value))]
    ELSE IF IsSome(indicator.target)
    THEN [type |-> "legacy", target |-> Some(R(Val(indicator.target))),
          value |-> R(Val(current_measurement.value))]
    ELSE IF /\ IsSome(indicator.targets)
            /\ DOMAIN Val(indicator.targets) # {}
            /\ IsSome(current_year)
            /\ Val(current_year) \in DOMAIN Val(indicator.targets)
    THEN [type |-> "annual",
          target |-> Some(R(Val(indicator.targets)[Val(current_year)])),
          value |-> YearValue(indicator, Val(current_year))]
    ELSE [type |-> "none", target |-> None,
          value |-> R(Val(current_measurement.value))]

ResolveTarget(indicator, current_measurement, current_year) ==
    IF IsSome(current_measurement.target)
    THEN [type |-> "period", target |-> Some(R(Val(current_measurement.target))),
          value |-> R(Val(current_measurement.value))]
    ELSE IF /\ IsSome(indicator.targets)
            /\ DOMAIN Val(indicator.targets) # {}
            /\ IsSome(current_year)
            /\ Val(current_year) \in DOMAIN Val(indicator.targets)
    THEN [type |-> "annual",
          target |-> Some(R(Val(indicator.targets)[Val(current_year)])),
          value |-> YearValue(indicator, Val(current_year))]
    ELSE IF IsSome(indicator.target)
    THEN [type |-> "legacy", target |-> Some(R(Val(indicator.target))),
          value |-> R(Val(current_measurement.value))]
    ELSE [type |-> "none", target |-> None,
          value |-> R(Val(current_measurement.value))]

\* calculate_progress_to_target: (progress, target_type, target_value), and
\* with them the comparison value the progress was computed from.
calculate_progress_to_target(periods, indicator) ==
    IF periods = <<>> THEN Raise("IndexError")
    ELSE
      LET time_periods == SortedStrs(periods)
          current_period == Last(time_periods)
          current_year == CurrentYear(current_period)
          current_measurement == Get(indicator.measurements, current_period)
      IN  IF IsNone(current_measurement) \/ IsNone(Val(current_measurement).value)
          THEN Ok([progress |-> None, target_type |-> None,
                   target_value |-> None, value |-> None])
          ELSE
            LET t == ResolveTarget(indicator, Val(current_measurement), current_year)
            IN  IF t.type = "none"
                THEN Ok([progress |-> None, target_type |-> Some("none"),
                         target_value |-> None, value |-> None])
                ELSE Ok([progress |-> Some(Progress(t.value, Val(t.target))),
                         target_type |-> Some(t.type),
                         target_value |-> t.target,
                         value |-> Some(t.value)])

\* The values of the last two entries of the list as it is stored.
CardValuesOfStoredOrder(periods, indicator) ==
    IF periods = <<>> THEN Raise("IndexError")
    ELSE
      LET current_measurement == Get(indicator.measurements, Last(periods))
          previous_measurement ==
              IF Len(periods) > 1
              THEN Get(indicator.measurements, Last2(periods))
              ELSE None
      IN  Ok([current_value |->
                 IF IsSome(current_measurement)
                 THEN Val(current_measurement).value ELSE None,
              previous_value |->
                 IF IsSome(previous_measurement)
                 THEN Val(previous_measurement).value ELSE None])

\* Lines 177-185 of create_kpi_card: (current_value, previous_value) read
\* from the two latest periods of the list.
CardValues(periods, indicator) ==
    IF periods = <<>> THEN Raise("IndexError")
    ELSE
      LET time_periods == SortedStrs(periods)
          current_measurement == Get(indicator.measurements, Last(time_periods))
          previous_measurement ==
              IF Len(time_periods) > 1
              THEN Get(indicator.measurements, Last2(time_periods))
              ELSE None
      IN  Ok([current_value |->
                 IF IsSome(current_measurement)
                 THEN Val(current_measurement).value ELSE None,
              previous_value |->
                 IF IsSome(previous_measurement)
                 THEN Val(previous_measurement).value ELSE None])

\* The KPICard of lines 193-201.
KPICard(indicator, values, trend, progress) ==
    [indicator |-> indicator.id,
     current_value |-> values.current_value,
     previous_value |-> values.previous_value,
     trend |-> trend,
     progress_to_target |-> progress.progress,
     target_type |-> progress.target_type,
     target_value |-> progress.target_value]

\* create_kpi_card.  Each of the four lists is one read of
\* self._data.metadata.time_periods: line 177, line 65, line 71, line 120.
create_kpi_card(pCard, pChecked, pSorted, pProgress, indicator) ==
    LET values == CardValues(pCard, indicator)
        trend == calculate_trend(pChecked, pSorted, indicator)
        progress == calculate_progress_to_target(pProgress, indicator)
    IN  IF ~IsOk(values) THEN values
        ELSE IF ~IsOk(trend) THEN trend
        ELSE IF ~IsOk(progress) THEN progress
        ELSE Ok(KPICard(indicator, values.ret, trend.ret, progress.ret))

\* "if steward:", "if tag_filter:" (lines 214, 226, 248, 256): the argument
\* is neither None nor "".
GivenName(filter) == IsSome(filter) /\ Val(filter) # ""

\* "if domain:" (lines 218, 252)
GivenDomain(domain) == IsSome(domain) /\ Val(domain) # <<>>

\* Filters of which one is enough to keep an indicator.
KeepIndicatorAnyFilter(ind, steward, domain, kpi_only, tag_filter) ==
    \/ ~(GivenName(steward) \/ GivenDomain(domain) \/ kpi_only
           \/ GivenName(tag_filter))
    \/ (GivenName(steward) /\ Val(steward) \in Range(ind.stewards))
    \/ (GivenDomain(domain) /\ ind.domain = Val(domain))
    \/ (kpi_only /\ "KPI" \in Range(ind.tags))
    \/ (GivenName(tag_filter) /\ Val(tag_filter) \in Range(ind.tags))

\* Lines 214-227: the filters of get_kpi_cards; a filter that is None, ""
\* or False is not applied.
KeepIndicator(ind, steward, domain, kpi_only, tag_filter) ==
    /\ (GivenName(steward) => Val(steward) \in Range(ind.stewards))
    /\ (GivenDomain(domain) => ind.domain = Val(domain))
    /\ (kpi_only => "KPI" \in Range(ind.tags))
    /\ (GivenName(tag_filter) => Val(tag_filter) \in Range(ind.tags))

\* [ind for ind in s if ...] with the filters supplied
RECURSIVE SelectIndicators(_, _, _, _, _)
SelectIndicators(s, steward, domain, kpi_only, tag_filter) ==
    IF s = <<>> THEN <<>>
    ELSE (IF KeepIndicator(s[1], steward, domain, kpi_only, tag_filter)
          THEN <<s[1]>> ELSE <<>>)
         \o SelectIndicators(Tail(s), steward, domain, kpi_only, tag_filter)

\* (a.domain, a.name) < (b.domain, b.name): the sort key of line 230
KeyLess(a, b) ==
    \/ StrLess(a.domain, b.domain)
    \/ (a.domain = b.domain /\ StrLess(a.name, b.name))

RECURSIVE InsertIndicator(_, _)
InsertIndicator(x, s) ==
    IF s = <<>> THEN <<x>>
    ELSE IF KeyLess(x, s[1]) THEN <<x>> \o s
    ELSE <<s[1]>> \o InsertIndicator(x, Tail(s))

\* indicators.sort(key=lambda x: (x.domain, x.name)), a stable sort
RECURSIVE SortIndicators(_)
SortIndicators(s) ==
    IF s = <<>> THEN <<>>
    ELSE InsertIndicator(s[Len(s)], SortIndicators(SubSeq(s, 1, Len(s) - 1)))

\* Lines 208-230 of get_kpi_cards: the filtered and sorted indicator list.
CardIndicators(catalog, steward, domain, kpi_only, tag_filter) ==
    SortIndicators(SelectIndicators(catalog.indicators, steward, domain,
                                    kpi_only, tag_filter))

\* Line 232: the cards of the indicators, on one catalog.
RECURSIVE CardsOf(_, _)
CardsOf(periods, indicators) ==
    IF indicators = <<>> THEN Ok(<<>>)
    ELSE LET card == create_kpi_card(periods, periods, periods, periods,
                                     indicators[1])
             rest == CardsOf(periods, Tail(indicators))
         IN  IF ~IsOk(card) THEN card
             ELSE IF ~IsOk(rest) THEN rest
             ELSE Ok(<<card.ret>> \o rest.ret)

\* get_kpi_cards on one catalog.
get_kpi_cards(catalog, steward, domain, kpi_only, tag_filter) ==
    CardsOf(catalog.time_periods,
            CardIndicators(catalog, steward, domain, kpi_only, tag_filter))

\* A count that looks at the primary steward only.
RECURSIVE StewardCountPrimaryOnly(_, _)
StewardCountPrimaryOnly(indicators, st) ==
    IF indicators = <<>> THEN 0
    ELSE (IF indicators[1].stewards[1] = st THEN 1 ELSE 0)
         + StewardCountPrimaryOnly(Tail(indicators), st)

\* Lines 266-270: what the indicators add to the count of steward st.
RECURSIVE StewardCount(_, _)
StewardCount(indicators, st) ==
    IF indicators = <<>> THEN 0
    ELSE Cardinality({j \in 1..Len(indicators[1].stewards) :
                         indicators[1].stewards[j] = st})
         + StewardCount(Tail(indicators), st)

\* Lines 245-270 of get_kpi_summary: the counts over the filtered
\* indicators (there is no "KPI only" filter here).
SummaryCounts(catalog, steward, domain, tag_filter) ==
    LET indicators ==
            SelectIndicators(catalog.indicators, steward, domain, FALSE, tag_filter)
        idx == 1..Len(indicators)
        domains == {indicators[i].domain : i \in idx}
        stewards == UNION {Range(indicators[i].stewards) : i \in idx}
    IN  [total_indicators |-> Len(indicators),
         indicators_by_domain |->
            [d \in domains |-> Cardinality({i \in idx : indicators[i].domain = d})],
         indicators_by_steward |->
            [st \in stewards |-> StewardCount(indicators, st)]]

\* Lines 272-281 of get_kpi_summary: the summary from the counts and the
\* time-period list.
KPISummary(counts, time_periods) ==
    [total_indicators |-> counts.total_indicators,
     indicators_by_domain |-> counts.indicators_by_domain,
     indicators_by_steward |-> counts.indicators_by_steward,
     time_periods |-> time_periods,
     latest_period |-> IF time_periods # <<>>
                       THEN Last(SortedStrs(time_periods)) ELSE <<>>]

\* get_kpi_summary on one catalog.
get_kpi_summary(catalog, steward, domain, tag_filter) ==
    Ok(KPISummary(SummaryCounts(catalog, steward, domain, tag_filter),
                  catalog.time_periods))

\* A lookup by the primary steward only.
get_indicators_by_primary_steward(catalog, steward) ==
    LET keep(indicator) == indicator.stewards[1] = steward
    IN  SelectSeq(catalog.indicators, keep)

\* get_indicators_by_steward, lines 36-44
get_indicators_by_steward(catalog, steward) ==
    LET keep(indicator) == steward \in Range(indicator.stewards)
    IN  SelectSeq(catalog.indicators, keep)

\* get_indicators_by_domain, lines 46-54
get_indicators_by_domain(catalog, domain) ==
    LET keep(indicator) == indicator.domain = domain
    IN  SelectSeq(catalog.indicators, keep)

\* get_indicator_by_id: self._data.indicators.get(indicator_id)
get_indicator_by_id(catalog, indicator_id) ==
    LET hits == {i \in 1..Len(catalog.indicators) :
                    catalog.indicators[i].id = indicator_id}
    IN  IF hits = {} THEN None
        ELSE Some(catalog.indicators[CHOOSE i \in hits : TRUE])

(***************************************************************************)
(* app/main.py: the HTTP handlers                                          *)
(***************************************************************************)
\* raise HTTPException(status_code=...)
HTTPException(status_code) == [exc |-> "HTTPException", status_code |-> status_code]

\* The exception classes of the model; each is a subclass of Exception,
\* fastapi's HTTPException included.
ExceptionClasses ==
    {"HTTPException", "IndexError", "ValueError", "FileNotFoundError", "TypeError"}

\* try: <body> / except Exception as e: raise HTTPException(status_code=500)
ExceptException(body) ==
    IF IsOk(body) THEN body
    ELSE IF body.exc \in ExceptionClasses THEN HTTPException(500)
    ELSE body

\* The status of the response FastAPI sends for a handler's outcome.
ResponseStatus(outcome) ==
    IF IsOk(outcome) THEN 200
    ELSE IF outcome.exc = "HTTPException" THEN outcome.status_code
    ELSE 500

\* GET /api/indicators/{indicator_id}, lines 91-100
get_indicator(catalog, indicator_id) ==
    ExceptException(
        LET indicator == get_indicator_by_id(catalog, indicator_id)
        IN  IF IsNone(indicator) THEN HTTPException(404)
            ELSE Ok(Val(indicator)))

(***************************************************************************)
(* data/csv_to_json_converter.py: the year key of an annual target         *)
(***************************************************************************)
\* Line 282: time_period.split('-')[0] if '-' in time_period else time_period
ConverterYearKey(time_period) ==
    IF HasHyphen(time_period) THEN SplitFirst(time_period) ELSE time_period

(***************************************************************************)
(* The engine on one indicator: inputs drawn from bounded sets             *)
(***************************************************************************)
\* The longest metadata.time_periods list of the engine's inputs.
MaxPeriods == 2

\* The lists without repetition over the labels in S, of length <= n.
RECURSIVE ListsOver(_, _)
ListsOver(S, n) ==
    IF n = 0 THEN {<<>>}
    ELSE LET shorter == ListsOver(S, n - 1)
         IN  shorter \cup
             {Append(l, x) : l \in {m \in shorter : Len(m) = n - 1},
                             x \in S} 

\* Ascending as the ingestion step writes the list (line 317), or descending.
Ascending(l) == \A i \in 1..(Len(l) - 1) : StrLess(l[i], l[i + 1])

Descending(l) == \A i \in 1..(Len(l) - 1) : StrLess(l[i + 1], l[i])

PeriodLists ==
    {l \in ListsOver(Labels, MaxPeriods) : Ascending(l) \/ Descending(l)}

\* The longest metadata.time_periods of the trend inputs: one period more
\* than the two that calculate_trend compares.
MaxTrendPeriods == 3

TrendPeriodLists ==
    {l \in ListsOver(Labels, MaxTrendPeriods) : Ascending(l) \/ Descending(l)}

\* Optional values over a set
Opt(S) == {None} \cup {Some(v) : v \in S}

\* The year keys the ingestion step stores annual targets under.
YearKeys == {ConverterYearKey(p) : p \in Labels}

\* Readings and targets of the trend inputs and of the progress inputs.
TrendValues == {-10, -5, 0, 10}

ProgressValues == {-50, 0, 95, 97, 150}

TargetValues == {0, 100}

\* The per-year target mappings: None, or a dict over some of the year keys.
TargetDicts(T) ==
    {None} \cup {Some(f) : f \in UNION {[K -> T] : K \in SUBSET YearKeys}}

\* An indicator with the given measurements and targets.
Indicator(measurements, target, targets, target_operation) ==
    [measurements |-> measurements, target |-> target, targets |-> targets,
     target_operation |-> target_operation]

\* The indicators whose measurements are keyed by periods of the catalog.
Indicators(periods, V, MT, LT, TD, OPS) ==
    {Indicator(m, t, td, op) :
        m \in UNION {[K -> [value : Opt(V), target : Opt(MT)]] :
                        K \in SUBSET Range(periods)},
        t \in Opt(LT), td \in TD, op \in OPS}

\* The parser variables while another specification runs.
ParseIdle ==
    /\ p_batch = <<>>
    /\ p_pc = "idle"
    /\ p_out = None

\* No DataService method is called on its own.
StoreIdle ==
    /\ s_call = None
    /\ s_pc = "idle"
    /\ s_out = None

\* The FinancialDataService variables while another specification runs.
FinIdle ==
    /\ xml_dir = <<>>
    /\ cache_file = [kind |-> "missing"]
    /\ heap = <<>>
    /\ cached_data = None
    /\ refreshes = 0
    /\ f_pc = "idle"
    /\ f_op = ""
    /\ f_metrics = None
    /\ f_loc = None
    /\ f_result = None
    /\ f_seen = {}
    /\ f_queries = 0

\* The DataService variables while a specification of the engine runs.
SvcIdle ==
    /\ json_file = [kind |-> "missing"]
    /\ data = [time_periods |-> <<>>, indicators |-> <<>>]
    /\ reloads = 0
    /\ q_pc = "idle"
    /\ q_op = ""
    /\ q_steward = None
    /\ q_indicators = <<>>
    /\ q_cards = <<>>
    /\ q_loc = None
    /\ q_summary = None
    /\ q_result = None
    /\ q_seen = {}
    /\ queries = 0
    /\ http_resp = None

InitTrend ==
    /\ kpi_periods \in TrendPeriodLists
    /\ kpi_indicator \in Indicators(kpi_periods, TrendValues, {}, {}, {None}, {None})
    /\ calc_pc = "ready"
    /\ calc_out = None
    /\ SvcIdle
    /\ FinIdle
    /\ ParseIdle
    /\ StoreIdle

InitProgress ==
    /\ kpi_periods \in PeriodLists
    /\ kpi_indicator \in Indicators(kpi_periods, ProgressValues, {100}, {100},
                                    TargetDicts(TargetValues),
                                    Opt({"sum", "average"}))
    /\ calc_pc = "ready"
    /\ calc_out = None
    /\ SvcIdle
    /\ FinIdle
    /\ ParseIdle
    /\ StoreIdle

\* DataService.calculate_trend(indicator) on the loaded catalog
CalcTrend ==
    /\ calc_pc = "ready"
    /\ calc_out' = calculate_trend(kpi_periods, kpi_periods, kpi_indicator)
    /\ calc_pc' = "calculate_trend"
    /\ UNCHANGED <<kpi_periods, kpi_indicator, svcVars, finVars, parseVars, storeVars>>

\* DataService.calculate_progress_to_target(indicator) on the loaded catalog
CalcProgress ==
    /\ calc_pc = "ready"
    /\ calc_out' = calculate_progress_to_target(kpi_periods, kpi_indicator)
    /\ calc_pc' = "calculate_progress_to_target"
    /\ UNCHANGED <<kpi_periods, kpi_indicator, svcVars, finVars, parseVars, storeVars>>

NextTrend == CalcTrend

NextProgress == CalcProgress

SpecTrend == InitTrend /\ [][NextTrend]_vars

SpecProgress == InitProgress /\ [][NextProgress]_vars

(***************************************************************************)
(* DataService as a state machine: the catalog file, self._data, reload    *)
(* and a query that runs beside it.  A query is a sequence of steps, one   *)
(* per read of self._data; reload_data publishes the new catalog with one  *)
(* assignment (line 24).                                                   *)
(***************************************************************************)
\* reload_data calls and queries of one run of the model.
MaxReloads == 2

MaxQueries == 2

\* "Adoption", "Community", "Members", "Ballots", "Tracks": a domain and a
\* name are strings the listing sorts by.
DomAdoption == <<65>>

DomCommunity == <<67>>

NameBallots == <<66>>

NameMembers == <<77>>

NameTracks == <<84>>

Measurement(value, target) == [value |-> value, target |-> target]

\* The catalog of yearly periods.
CatalogYearly ==
    [time_periods |-> <<L2024, L2025>>,
     indicators |-> <<
        [id |-> "HL7-1", name |-> NameMembers, domain |-> DomCommunity,
         stewards |-> <<"HL7 International">>, tags |-> <<"KPI">>,
         target |-> Some(100), targets |-> None, target_operation |-> None,
         measurements |-> (L2024 :> Measurement(Some(95), None)) @@
                          (L2025 :> Measurement(Some(97), None))],
        [id |-> "CSDO-2", name |-> NameBallots, domain |-> DomAdoption,
         stewards |-> <<"CSDO", "HL7 International">>, tags |-> <<>>,
         target |-> None, targets |-> None, target_operation |-> None,
         measurements |-> (L2025 :> Measurement(Some(150), Some(100)))] >>]

\* The catalog of sub-year periods, with another indicator set.
CatalogTerms ==
    [time_periods |-> <<L2025T1, L2025T2>>,
     indicators |-> <<
        [id |-> "HL7-1", name |-> NameMembers, domain |-> DomCommunity,
         stewards |-> <<"HL7 International">>, tags |-> <<"KPI">>,
         target |-> None, targets |-> Some((L2025 :> 100)),
         target_operation |-> Some("average"),
         measurements |-> (L2025T1 :> Measurement(Some(95), None)) @@
                          (L2025T2 :> Measurement(Some(97), None))],
        [id |-> "CSDO-14", name |-> NameTracks, domain |-> DomAdoption,
         stewards |-> <<"CSDO">>, tags |-> <<"ACCELERATOR">>,
         target |-> None, targets |-> Some((L2025 :> 0)),
         target_operation |-> Some("sum"),
         measurements |-> (L2025T1 :> Measurement(Some(0), None)) @@
                          (L2025T2 :> Measurement(None, None))] >>]

\* A catalog with a single period.
CatalogFirstYear ==
    [time_periods |-> <<L2025>>,
     indicators |-> <<
        [id |-> "HL7-1", name |-> NameMembers, domain |-> DomCommunity,
         stewards |-> <<"HL7 International">>, tags |-> <<"KPI">>,
         target |-> None, targets |-> None, target_operation |-> None,
         measurements |-> (L2025 :> Measurement(Some(97), None))] >>]

Catalogs == {CatalogYearly, CatalogTerms, CatalogFirstYear}

\* What kpi_data.json can hold.
FileContents ==
    {[kind |-> "missing"], [kind |-> "invalid"]}
    \cup {[kind |-> "json", catalog |-> c] : c \in Catalogs}

Stewards == {"HL7 International", "CSDO"}

IndicatorIds == {"HL7-1", "CSDO-2", "CSDO-14", "HL7-99"}

\* _load_data, lines 15-26: the catalog read from the file, or the error.
LoadData(file) ==
    IF file.kind = "missing" THEN Raise("FileNotFoundError")
    ELSE IF file.kind = "invalid" THEN Raise("ValueError")
    ELSE Ok(file.catalog)

\* The engine variables while DataService runs.
CalcIdle ==
    /\ kpi_periods = <<>>
    /\ kpi_indicator = Indicator(<<>>, None, None, None)
    /\ calc_pc = "idle"
    /\ calc_out = None

\* DataService(): the constructor loads the file and raises when it cannot,
\* so a DataService that exists holds a catalog.
Init ==
    /\ json_file \in {f \in FileContents : f.kind = "json"}
    /\ data = LoadData(json_file).ret
    /\ reloads = 0
    /\ q_pc = "idle"
    /\ q_op = ""
    /\ q_steward = None
    /\ q_indicators = <<>>
    /\ q_cards = <<>>
    /\ q_loc = None
    /\ q_summary = None
    /\ q_result = None
    /\ q_seen = {}
    /\ queries = 0
    /\ http_resp = None
    /\ CalcIdle
    /\ FinIdle
    /\ ParseIdle
    /\ StoreIdle

qVars == <<q_pc, q_op, q_steward, q_indicators, q_cards, q_loc, q_summary,
           q_result, q_seen, queries>>

\* The ingestion step, or anything else, rewrites or damages the file.
WriteFile(content) ==
    /\ json_file # content
    /\ json_file' = content
    /\ UNCHANGED <<data, reloads, qVars, http_resp, calcVars, finVars, parseVars, storeVars>>

\* The catalogs a query has run beside, after self._data became d.
SeenWith(d) == IF q_pc \in {"idle", "done"} THEN q_seen ELSE q_seen \cup {d}

\* A reload that leaves an empty catalog when the file cannot be loaded.
ReloadDataOrEmpty ==
    /\ reloads < MaxReloads
    /\ reloads' = reloads + 1
    /\ LET loaded == LoadData(json_file)
       IN  /\ data' = IF IsOk(loaded) THEN loaded.ret
                      ELSE [time_periods |-> <<>>, indicators |-> <<>>]
           /\ q_seen' = SeenWith(data')
    /\ UNCHANGED <<json_file, q_pc, q_op, q_steward, q_indicators, q_cards,
                   q_loc, q_summary, q_result, queries, http_resp, calcVars, finVars, parseVars, storeVars>>

\* reload_data: on success self._data is the catalog of the file, otherwise
\* the call raises and self._data stays.
ReloadData ==
    /\ reloads < MaxReloads
    /\ reloads' = reloads + 1
    /\ LET loaded == LoadData(json_file)
       IN  /\ data' = IF IsOk(loaded) THEN loaded.ret ELSE data
           /\ q_seen' = SeenWith(data')
    /\ UNCHANGED <<json_file, q_pc, q_op, q_steward, q_indicators, q_cards,
                   q_loc, q_summary, q_result, queries, http_resp, calcVars, finVars, parseVars, storeVars>>

\* A caller starts get_kpi_cards, get_kpi_summary or get_dashboard_metrics.
QueryCall(op, steward) ==
    /\ q_pc = "idle"
    /\ queries < MaxQueries
    /\ queries' = queries + 1
    /\ q_op' = op
    /\ q_steward' = steward
    /\ q_pc' = IF op = "summary" THEN "summary_counts" ELSE "cards_list"
    /\ q_indicators' = <<>>
    /\ q_cards' = <<>>
    /\ q_loc' = None
    /\ q_summary' = None
    /\ q_result' = None
    /\ q_seen' = {data}
    /\ UNCHANGED <<json_file, data, reloads, http_resp, calcVars, finVars, parseVars, storeVars>>

\* The query returns or raises: its result is q_result.
Finish(result) ==
    /\ q_pc' = "done"
    /\ q_result' = result
    /\ q_indicators' = <<>>
    /\ q_loc' = None

\* After the cards: get_kpi_cards returns, get_dashboard_metrics goes on
\* with get_kpi_summary (line 306).
AfterCards(cards) ==
    IF q_op = "cards"
    THEN Finish(Ok(cards)) /\ q_cards' = <<>>
    ELSE /\ q_pc' = "summary_counts"
         /\ q_cards' = cards
         /\ q_indicators' = <<>>
         /\ q_loc' = None
         /\ UNCHANGED q_result

\* get_kpi_cards, lines 205-230: the indicator list is read from self._data.
CardsList ==
    /\ q_pc = "cards_list"
    /\ LET indicators == CardIndicators(data, q_steward, None, FALSE, None)
       IN  IF indicators = <<>>
           THEN AfterCards(<<>>)
           ELSE /\ q_indicators' = indicators
                /\ q_pc' = "card_values"
                /\ UNCHANGED <<q_cards, q_loc, q_result>>
    /\ UNCHANGED <<json_file, data, reloads, q_op, q_steward, q_summary,
                   q_seen, queries, http_resp, calcVars, finVars, parseVars, storeVars>>

\* create_kpi_card, lines 167-185: the periods are read from self._data.
CardValuesStep ==
    /\ q_pc = "card_values"
    /\ LET values == CardValues(data.time_periods, q_indicators[1])
       IN  IF IsOk(values)
           THEN /\ q_loc' = Some([values |-> values.ret])
                /\ q_pc' = "trend_check"
                /\ UNCHANGED <<q_indicators, q_result>>
           ELSE Finish(values)
    /\ UNCHANGED <<json_file, data, reloads, q_op, q_steward, q_cards,
                   q_summary, q_seen, queries, http_resp, calcVars, finVars, parseVars, storeVars>>

\* calculate_trend, line 65: the length of the list read from self._data.
TrendCheck ==
    /\ q_pc = "trend_check"
    /\ q_loc' = Some([values |-> Val(q_loc).values, checked |-> data.time_periods])
    /\ q_pc' = "trend_sort"
    /\ UNCHANGED <<json_file, data, reloads, q_op, q_steward, q_indicators,
                   q_cards, q_summary, q_result, q_seen, queries, http_resp,
                   calcVars, finVars, parseVars, storeVars>>

\* calculate_trend, lines 69-114: the list is read again and sorted.
TrendSort ==
    /\ q_pc = "trend_sort"
    /\ LET trend == calculate_trend(Val(q_loc).checked, data.time_periods,
                                    q_indicators[1])
       IN  IF IsOk(trend)
           THEN /\ q_loc' = Some([values |-> Val(q_loc).values, trend |-> trend.ret])
                /\ q_pc' = "progress"
                /\ UNCHANGED <<q_indicators, q_result>>
           ELSE Finish(trend)
    /\ UNCHANGED <<json_file, data, reloads, q_op, q_steward, q_cards,
                   q_summary, q_seen, queries, http_resp, calcVars, finVars, parseVars, storeVars>>

\* calculate_progress_to_target reads the periods from self._data (line
\* 120); the card is complete and the loop of line 232 goes on.
ProgressStep ==
    /\ q_pc = "progress"
    /\ LET progress == calculate_progress_to_target(data.time_periods,
                                                    q_indicators[1])
       IN  IF IsOk(progress)
           THEN LET card == KPICard(q_indicators[1], Val(q_loc).values,
                                    Val(q_loc).trend, progress.ret)
                    cards == Append(q_cards, card)
                IN  IF Len(q_indicators) > 1
                    THEN /\ q_indicators' = Tail(q_indicators)
                         /\ q_cards' = cards
                         /\ q_loc' = None
                         /\ q_pc' = "card_values"
                         /\ UNCHANGED q_result
                    ELSE AfterCards(cards)
           ELSE Finish(progress) /\ UNCHANGED q_cards
    /\ UNCHANGED <<json_file, data, reloads, q_op, q_steward, q_summary,
                   q_seen, queries, http_resp, calcVars, finVars, parseVars, storeVars>>

\* get_kpi_summary, lines 245-270: the indicators are read from self._data.
SummaryCountsStep ==
    /\ q_pc = "summary_counts"
    /\ q_summary' = Some(SummaryCounts(data, q_steward, None, None))
    /\ q_pc' = "summary_periods"
    /\ UNCHANGED <<json_file, data, reloads, q_op, q_steward, q_indicators,
                   q_cards, q_loc, q_result, q_seen, queries, http_resp,
                   calcVars, finVars, parseVars, storeVars>>

\* get_kpi_summary, lines 272-281: the periods are read from self._data.
SummaryPeriodsStep ==
    /\ q_pc = "summary_periods"
    /\ LET summary == KPISummary(Val(q_summary), data.time_periods)
       IN  IF q_op = "summary"
           THEN Finish(Ok(summary)) /\ q_summary' = None
           ELSE /\ q_summary' = Some(summary)
                /\ q_pc' = "dashboard_metadata"
                /\ UNCHANGED <<q_indicators, q_loc, q_result>>
    /\ UNCHANGED <<json_file, data, reloads, q_op, q_steward, q_cards,
                   q_seen, queries, http_resp, calcVars, finVars, parseVars, storeVars>>

\* get_dashboard_metrics, lines 308-312: metadata is read from self._data.
DashboardMetadataStep ==
    /\ q_pc = "dashboard_metadata"
    /\ Finish(Ok([kpi_cards |-> q_cards, summary |-> Val(q_summary),
                  metadata |-> data.time_periods]))
    /\ q_cards' = <<>>
    /\ q_summary' = None
    /\ UNCHANGED <<json_file, data, reloads, q_op, q_steward, q_seen, queries,
                   http_resp, calcVars, finVars, parseVars, storeVars>>

\* The caller takes the result.
QueryReturn ==
    /\ q_pc = "done"
    /\ q_pc' = "idle"
    /\ q_result' = None
    /\ q_seen' = {}
    /\ q_op' = ""
    /\ q_steward' = None
    /\ UNCHANGED <<json_file, data, reloads, q_indicators, q_cards, q_loc,
                   q_summary, queries, http_resp, calcVars, finVars, parseVars, storeVars>>

\* GET /api/indicators/{indicator_id}
HttpGetIndicator(indicator_id) ==
    /\ http_resp' = Some([indicator_id |-> indicator_id,
                          in_catalog |-> IsSome(get_indicator_by_id(data, indicator_id)),
                          status |-> ResponseStatus(get_indicator(data, indicator_id))])
    /\ http_resp' # http_resp
    /\ UNCHANGED <<json_file, data, reloads, qVars, calcVars, finVars, parseVars, storeVars>>

Next ==
    \/ \E content \in FileContents : WriteFile(content)
    \/ ReloadData
    \/ \E op \in {"cards", "summary", "dashboard"}, steward \in Opt(Stewards) :
          QueryCall(op, steward)
    \/ CardsList
    \/ CardValuesStep
    \/ TrendCheck
    \/ TrendSort
    \/ ProgressStep
    \/ SummaryCountsStep
    \/ SummaryPeriodsStep
    \/ DashboardMetadataStep
    \/ QueryReturn

Spec == Init /\ [][Next]_vars

\* The HTTP layer over DataService: the handlers of main.py are coroutines
\* without an await, so each runs to its end before the next request.
NextHttp ==
    \/ \E content \in FileContents : WriteFile(content)
    \/ ReloadData
    \/ \E indicator_id \in IndicatorIds : HttpGetIndicator(indicator_id)

SpecHttp == Init /\ [][NextHttp]_vars

\* get_dashboard_metrics on one catalog.
get_dashboard_metrics(catalog, steward) ==
    LET cards == get_kpi_cards(catalog, steward, None, FALSE, None)
        summary == get_kpi_summary(catalog, steward, None, None)
    IN  IF ~IsOk(cards) THEN cards
        ELSE Ok([kpi_cards |-> cards.ret, summary |-> summary.ret,
                 metadata |-> catalog.time_periods])

(***************************************************************************)
(* app/financial_parser.py and app/financial_service.py.                   *)
(* A FinancialYearData keeps year, total_revenue, total_expenses and       *)
(* net_income; its other amounts are read and copied the same way as       *)
(* total_revenue and are left out.  A FinancialHealthMetrics keeps years,  *)
(* latest_year and years_available.  Amounts are whole dollars.            *)
(***************************************************************************)
FinancialYearData(year, total_revenue, total_expenses, net_income) ==
    [year |-> year, total_revenue |-> total_revenue,
     total_expenses |-> total_expenses, net_income |-> net_income]

\* str(n) of a non-negative int: its decimal digits.
RECURSIVE Str(_)
Str(n) == IF n < 10 THEN <<48 + n>> ELSE Append(Str(n \div 10), 48 + (n % 10))

\* The value of a string of decimal digits.
RECURSIVE DigitsValue(_)
DigitsValue(t) ==
    IF t = <<>> THEN 0
    ELSE 10 * DigitsValue(SubSeq(t, 1, Len(t) - 1)) + (Last(t) - 48)

\* float(text) and int(text) on the texts of the model: decimal digits with
\* an optional leading "-" are a number, every other text raises ValueError.
ParseNumber(text) ==
    LET negative == text # <<>> /\ text[1] = Hyphen
        digits == IF negative THEN Tail(text) ELSE text
    IN  IF digits # <<>> /\ \A i \in 1..Len(digits) : digits[i] \in 48..57
        THEN Ok(IF negative THEN -DigitsValue(digits) ELSE DigitsValue(digits))
        ELSE Raise("ValueError")

\* An XML element as find() returns it: None when there is none, otherwise
\* Some(text), the empty string standing for an element without text.
\* "n/a"
TextNA == <<110, 47, 97>>

\* A document: the stem of its file name, whether it is well-formed XML,
\* its TaxYr element and its IRS990 section (None when it has none).
Document(stem, wellformed, TaxYr, IRS990) ==
    [stem |-> stem, wellformed |-> wellformed, TaxYr |-> TaxYr,
     IRS990 |-> IRS990]

\* An IRS990 section with the two totals and no other element.  Of the
\* amounts that get_amount reads, the model keeps the two totals and two
\* of the revenue sources; the rest are read and copied the same way.
\* ProgramServiceRevenueGrp and OtherExpensesGrp are the elements of that
\* name in document order.
Section(revenue, expenses) ==
    [CYTotalRevenueAmt |-> revenue,
     CYTotalExpensesAmt |-> expenses,
     CYProgramServiceRevenueAmt |-> None,
     CYContributionsGrantsAmt |-> None,
     TotalEmployeeCnt |-> None,
     FeesForServicesManagementGrp |-> None,
     ProgramServiceRevenueGrp |-> <<>>,
     OtherExpensesGrp |-> <<>>]

\* A well-formed form file with the two totals, named after its year.
Form(year, revenue, expenses) ==
    Document(Str(year), TRUE, None, Some(Section(revenue, expenses)))

\* get_amount, lines 93-102
get_amount(element) ==
    IF IsSome(element) /\ Val(element) # <<>>
    THEN LET amount == ParseNumber(Val(element))
         IN  IF IsOk(amount) THEN amount.ret ELSE 0
    ELSE 0

\* get_int, lines 104-112
get_int(element) ==
    IF IsSome(element) /\ Val(element) # <<>>
    THEN LET count == ParseNumber(Val(element))
         IN  IF IsOk(count) THEN count.ret ELSE 0
    ELSE 0

\* _extract_year, lines 76-88: from the file name if it starts with "20",
\* else from TaxYr.
extract_year(doc) ==
    IF StartsWith(doc.stem, <<50, 48>>)
    THEN ParseNumber(SubSeq(doc.stem, 1, IF Len(doc.stem) < 4 THEN Len(doc.stem) ELSE 4))
    ELSE IF IsSome(doc.TaxYr) /\ Val(doc.TaxYr) # <<>>
    THEN ParseNumber(Val(doc.TaxYr))
    ELSE Raise("ValueError")

\* The year from which a filing has no management services, line 156
ManagementCutoverYear == 2024

\* management_services kept through the cutover year itself
ManagementServicesThroughCutover(irs990, year) ==
    IF year <= ManagementCutoverYear
    THEN LET management_grp == irs990.FeesForServicesManagementGrp
         IN  IF IsSome(management_grp)
             THEN Some(get_amount(Val(management_grp).TotalAmt))
             ELSE Some(0)
    ELSE None

\* Lines 154-169: management_services
ManagementServices(irs990, year) ==
    IF year < ManagementCutoverYear
    THEN LET management_grp == irs990.FeesForServicesManagementGrp
         IN  IF IsSome(management_grp)
             THEN LET total_amt == Val(management_grp).TotalAmt
                  IN  IF IsSome(total_amt) /\ Val(total_amt) # <<>>
                      THEN LET amount == ParseNumber(Val(total_amt))
                           IN  Some(IF IsOk(amount) THEN amount.ret ELSE 0)
                      ELSE Some(0)
             ELSE Some(0)
    ELSE None

\* str.lower() on the letters of the model's descriptions
Lower(text) ==
    [i \in 1..Len(text) |->
        IF text[i] \in 65..90 THEN text[i] + 32 ELSE text[i]]

\* sub in text
Contains(text, sub) ==
    \E i \in 0..(Len(text) - Len(sub)) :
        SubSeq(text, i + 1, i + Len(sub)) = sub

\* "member dues", "membership dues"
TextMemberDues == <<109, 101, 109, 98, 101, 114, 32, 100, 117, 101, 115>>

TextMembershipDues ==
    <<109, 101, 109, 98, 101, 114, 115, 104, 105, 112, 32, 100, 117, 101, 115>>

\* "meetings", "conferences"
TextMeetings == <<109, 101, 101, 116, 105, 110, 103, 115>>

TextConferences == <<99, 111, 110, 102, 101, 114, 101, 110, 99, 101, 115>>

\* Lines 205-207: the sub-categories before the loop.  Of the five named
\* sub-categories the model keeps the first two; the other three are
\* assigned and summed the same way.
NoneMapped == [membership_dues |-> None, meetings_conferences |-> None]

\* Lines 220-240: the loop over the ProgramServiceRevenueGrp elements, for
\* the groups from index i on; found holds the sub-categories so far.  The
\* result is the final sub-categories, or the exception a group raised.
RECURSIVE ProgramServiceGroups(_, _, _)
ProgramServiceGroups(groups, i, found) ==
    IF i > Len(groups) THEN Ok(found)
    ELSE LET desc_element == groups[i].Desc
             amount_element == groups[i].TotalRevenueColumnAmt
         IN  IF IsSome(desc_element) /\ IsSome(amount_element)
             THEN IF Val(desc_element) = <<>> THEN Raise("AttributeError")
                  ELSE LET description == Lower(Val(desc_element))
                           amount == IF Val(amount_element) # <<>>
                                     THEN ParseNumber(Val(amount_element))
                                     ELSE Ok(0)
                       IN  IF ~IsOk(amount) THEN amount
                           ELSE IF \/ Contains(description, TextMemberDues)
                                   \/ Contains(description, TextMembershipDues)
                           THEN ProgramServiceGroups(groups, i + 1,
                                    [found EXCEPT !.membership_dues = Some(amount.ret)])
                           ELSE IF \/ Contains(description, TextMeetings)
                                   \/ Contains(description, TextConferences)
                           THEN ProgramServiceGroups(groups, i + 1,
                                    [found EXCEPT !.meetings_conferences = Some(amount.ret)])
                           ELSE ProgramServiceGroups(groups, i + 1, found)
             ELSE ProgramServiceGroups(groups, i + 1, found)

\* "x or 0" of line 244
OrZero(x) == IF IsSome(x) THEN Val(x) ELSE 0

\* The difference recorded whatever its sign.
OtherProgramServicesAlways(found, program_service_revenue) ==
    Some(program_service_revenue
         - (OrZero(found.membership_dues) + OrZero(found.meetings_conferences)))

\* Lines 244-247: other_program_services
OtherProgramServices(found, program_service_revenue) ==
    LET mapped_total == OrZero(found.membership_dues)
                        + OrZero(found.meetings_conferences)
    IN  IF mapped_total < program_service_revenue
        THEN Some(program_service_revenue - mapped_total)
        ELSE None

\* "Equipment rental", the description of line 148
TextEquipmentRental ==
    <<69, 113, 117, 105, 112, 109, 101, 110, 116, 32, 114, 101, 110, 116, 97, 108>>

\* _extract_other_expense_by_description, lines 297-311, for the
\* OtherExpensesGrp elements from index i on: the amount of the first group
\* whose description contains the text and whose amount is a number.
RECURSIVE extract_other_expense_by_description(_, _, _)
extract_other_expense_by_description(other_expenses, i, description) ==
    IF i > Len(other_expenses) THEN None
    ELSE LET desc_element == other_expenses[i].Desc
             amount_element == other_expenses[i].TotalAmt
         IN  IF /\ IsSome(desc_element)
                /\ Val(desc_element) # <<>>
                /\ Contains(Lower(Val(desc_element)), Lower(description))
                /\ IsSome(amount_element)
                /\ Val(amount_element) # <<>>
                /\ IsOk(ParseNumber(Val(amount_element)))
             THEN Some(ParseNumber(Val(amount_element)).ret)
             ELSE extract_other_expense_by_description(other_expenses, i + 1,
                                                       description)

\* _extract_financial_data, lines 90-295: the record, or the exception
\* raised on the way.
extract_financial_data(irs990, year) ==
    LET total_revenue == get_amount(irs990.CYTotalRevenueAmt)
        total_expenses == get_amount(irs990.CYTotalExpensesAmt)
        net_income == total_revenue - total_expenses
        program_service_revenue == get_amount(irs990.CYProgramServiceRevenueAmt)
        groups == ProgramServiceGroups(irs990.ProgramServiceRevenueGrp, 1,
                                       NoneMapped)
    IN  IF ~IsOk(groups) THEN groups
        ELSE Ok(FinancialYearData(year, total_revenue, total_expenses, net_income)
                @@ [program_service_revenue |-> program_service_revenue,
                    contributions_grants |-> get_amount(irs990.CYContributionsGrantsAmt),
                    equipment_rental |->
                        extract_other_expense_by_description(
                            irs990.OtherExpensesGrp, 1, TextEquipmentRental),
                    membership_dues |-> groups.ret.membership_dues,
                    meetings_conferences |-> groups.ret.meetings_conferences,
                    other_program_services |->
                        OtherProgramServices(groups.ret, program_service_revenue),
                    management_services |-> ManagementServices(irs990, year),
                    total_employees |-> get_int(irs990.TotalEmployeeCnt)])

\* parse_single_form, lines 53-74: the record, or None for a document that
\* is not well-formed (ET.parse raises), has no year, has no IRS990 element
\* or whose extraction raises.
parse_single_form(doc) ==
    IF ~doc.wellformed THEN None
    ELSE LET year == extract_year(doc)
         IN  IF ~IsOk(year) THEN None
             ELSE IF IsNone(doc.IRS990) THEN None
             ELSE LET year_data == extract_financial_data(Val(doc.IRS990), year.ret)
                  IN  IF IsOk(year_data) THEN Some(year_data.ret) ELSE None

\* list.sort(key=lambda x: x.year): a stable sort by year.
RECURSIVE InsertYear(_, _)
InsertYear(sorted, y) ==
    IF sorted = <<>> THEN <<y>>
    ELSE IF Last(sorted).year <= y.year THEN Append(sorted, y)
    ELSE Append(InsertYear(SubSeq(sorted, 1, Len(sorted) - 1), y),
                Last(sorted))

\* The records left in the order in which the documents were parsed.
RecordsAsParsed(years) == years

RECURSIVE SortByYear(_)
SortByYear(years) ==
    IF years = <<>> THEN <<>>
    ELSE InsertYear(SortByYear(SubSeq(years, 1, Len(years) - 1)), Last(years))

MaxOf(S) == CHOOSE m \in S : \A x \in S : x <= m

\* list.sort() of a list of ints: position k holds the value v with fewer
\* than k smaller entries and at least k entries up to v.
SortInts(l) ==
    [k \in 1..Len(l) |->
        CHOOSE v \in Range(l) :
            /\ Cardinality({i \in 1..Len(l) : l[i] < v}) < k
            /\ k <= Cardinality({i \in 1..Len(l) : l[i] <= v})]

\* The growth of a figure over its predecessor: ((latest - prev) / prev) * 100
\* (financial_parser.py lines 324 and 326, financial_service.py lines 320
\* and 322)
Growth(latest, prev) == RMul(RDiv(R(latest - prev), R(prev)), R(100))

\* _calculate_trends as it would be if the expense growth were guarded by
\* the previous revenue.
calculate_trendsGuardedByRevenue(financial_data) ==
    [i \in 1..Len(financial_data) |->
        LET year_data == financial_data[i]
            prev_year == financial_data[i - 1]
        IN  [year |-> year_data.year,
             revenue |-> year_data.total_revenue,
             expenses |-> year_data.total_expenses,
             net_income |-> year_data.net_income,
             revenue_growth |->
                 IF i > 1 /\ prev_year.total_revenue > 0
                 THEN Some(Growth(year_data.total_revenue, prev_year.total_revenue))
                 ELSE None,
             expense_growth |->
                 IF i > 1 /\ prev_year.total_revenue > 0 /\ prev_year.total_expenses > 0
                 THEN Some(Growth(year_data.total_expenses, prev_year.total_expenses))
                 ELSE None]]

\* _calculate_trends, lines 313-337
calculate_trends(financial_data) ==
    [i \in 1..Len(financial_data) |->
        LET year_data == financial_data[i]
            prev_year == financial_data[i - 1]
        IN  [year |-> year_data.year,
             revenue |-> year_data.total_revenue,
             expenses |-> year_data.total_expenses,
             net_income |-> year_data.net_income,
             revenue_growth |->
                 IF i > 1 /\ prev_year.total_revenue > 0
                 THEN Some(Growth(year_data.total_revenue, prev_year.total_revenue))
                 ELSE None,
             expense_growth |->
                 IF i > 1 /\ prev_year.total_expenses > 0
                 THEN Some(Growth(year_data.total_expenses, prev_year.total_expenses))
                 ELSE None]]

\* _calculate_revenue_composition, lines 339-352
calculate_revenue_composition(financial_data) ==
    [i \in 1..Len(financial_data) |->
        [year |-> financial_data[i].year,
         program_services |-> financial_data[i].program_service_revenue,
         contributions |-> financial_data[i].contributions_grants]]

\* A loop that gives up the whole batch at the first document that yields
\* no record.
ParsedRecordsAbortingBatch(dir) ==
    IF \E i \in 1..Len(dir) : IsNone(parse_single_form(dir[i]))
    THEN <<>>
    ELSE [i \in 1..Len(dir) |-> Val(parse_single_form(dir[i]))]

\* The records of the documents that parse, in the order of the documents
\* (the loop of lines 24-32).
RECURSIVE ParsedRecords(_)
ParsedRecords(dir) ==
    IF dir = <<>> THEN <<>>
    ELSE LET year_data == parse_single_form(Last(dir))
             before == ParsedRecords(SubSeq(dir, 1, Len(dir) - 1))
         IN  IF IsSome(year_data) THEN Append(before, Val(year_data)) ELSE before

\* Lines 41-51 of parse_all_forms: the result from the sorted records and
\* the sorted years.
FormsMetrics(financial_data, years_available) ==
    [years |-> financial_data,
     revenue_trend |-> calculate_trends(financial_data),
     revenue_composition |-> calculate_revenue_composition(financial_data),
     latest_year |-> MaxOf(Range(years_available)),
     years_available |-> years_available]

\* Lines 34-51 of parse_all_forms, for the records of the loop.
AggregateForms(parsed) ==
    IF parsed = <<>> THEN Raise("ValueError")
    ELSE Ok(FormsMetrics(SortByYear(parsed),
                         SortInts([i \in 1..Len(parsed) |-> parsed[i].year])))

\* parse_all_forms, lines 16-51, on the documents of the directory in the
\* order of their file names.
parse_all_forms(dir) == AggregateForms(ParsedRecords(dir))

\* get_financial_summary, lines 314-353, for a latest_year already taken.
FinancialSummary(metrics, latest_year) ==
    LET years == metrics.years
        two == Len(years) >= 2
        prev_year == Last2(years)
        revenue_growth ==
            IF two /\ prev_year.total_revenue > 0
            THEN Some(Growth(latest_year.total_revenue, prev_year.total_revenue))
            ELSE None
        expense_growth ==
            IF two /\ prev_year.total_expenses > 0
            THEN Some(Growth(latest_year.total_expenses, prev_year.total_expenses))
            ELSE None
    IN  [latest_year |-> latest_year.year,
         previous_year |-> IF two THEN Some(prev_year.year) ELSE None,
         total_revenue |-> latest_year.total_revenue,
         total_expenses |-> latest_year.total_expenses,
         net_income |-> latest_year.net_income,
         revenue_change |-> IF IsSome(revenue_growth) THEN Val(revenue_growth) ELSE R(0),
         expense_change |-> IF IsSome(expense_growth) THEN Val(expense_growth) ELSE R(0),
         net_income_change |->
             IF two THEN latest_year.net_income - prev_year.net_income ELSE 0,
         net_income_improvement |->
             two /\ latest_year.net_income > prev_year.net_income,
         years_available |-> metrics.years_available]

\* get_financial_summary, lines 306-353, on one snapshot.
get_financial_summary(metrics) ==
    IF metrics.years = <<>> THEN Ok([empty |-> TRUE])
    ELSE Ok(FinancialSummary(metrics, Last(metrics.years)))

\* The labels of line 58
ChartLabels(years) == [i \in 1..Len(years) |-> Str(years[i].year)]

\* The data of lines 59-60 and the FinancialChartData of lines 62-88
ChartData(labels, years) ==
    [labels |-> labels,
     revenue_data |-> [i \in 1..Len(years) |-> years[i].total_revenue],
     expense_data |-> [i \in 1..Len(years) |-> years[i].total_expenses]]

\* get_revenue_expense_trend_chart, lines 54-88, on one snapshot.
get_revenue_expense_trend_chart(metrics) ==
    Ok(ChartData(ChartLabels(metrics.years), metrics.years))

\* The number of years the detailed table shows, line 646
RecentYears == 5

\* metrics.years[-5:], line 646
LastYears(years) == SubSeq(years, Len(years) - RecentYears + 1, Len(years))

\* calculate_percentage_change, lines 657-660
calculate_percentage_change(start_value, end_value) ==
    IF start_value = 0 THEN R(0)
    ELSE RMul(RDiv(R(end_value - start_value), R(Abs(start_value))), R(100))

\* get_detailed_financial_table, lines 649-736, on the sorted recent_years.
DetailedTable(recent_years) ==
    IF Len(recent_years) < 2 THEN [error |-> "Insufficient data for detailed table"]
    ELSE LET start_year == recent_years[1]
             end_year == Last(recent_years)
         IN  [years |-> [i \in 1..Len(recent_years) |-> Str(recent_years[i].year)],
              year_span |-> end_year.year - start_year.year,
              total_revenue |->
                  [values |-> [i \in 1..Len(recent_years) |-> recent_years[i].total_revenue],
                   change |-> calculate_percentage_change(start_year.total_revenue,
                                                          end_year.total_revenue)],
              total_expenses |->
                  [values |-> [i \in 1..Len(recent_years) |-> recent_years[i].total_expenses],
                   change |-> calculate_percentage_change(start_year.total_expenses,
                                                          end_year.total_expenses)],
              net_income |->
                  [values |-> [i \in 1..Len(recent_years) |-> recent_years[i].net_income]]]

\* The list line 646 binds to recent_years, after the sort of line 647.
RecentYearsSorted(years) ==
    SortByYear(IF Len(years) >= RecentYears THEN LastYears(years) ELSE years)

\* metrics.years after lines 646-647: the sort is in place, and with fewer
\* than five years recent_years is metrics.years itself, not a copy.
YearsAfterTableSort(years) ==
    IF Len(years) >= RecentYears THEN years ELSE SortByYear(years)

\* get_detailed_financial_table, lines 641-736, on one snapshot.
get_detailed_financial_table(metrics) ==
    Ok(DetailedTable(RecentYearsSorted(metrics.years)))

(***************************************************************************)
(* FinancialDataService as a state machine: one caller runs financial      *)
(* queries, another calls refresh_financial_data, and the form directory   *)
(* changes on disk.  A query is a sequence of steps, one per group of      *)
(* statements that reads metrics.                                          *)
(***************************************************************************)
MaxRefreshes == 2

MaxFinQueries == 2

F2021 == Form(2021, Some(Str(100)), Some(Str(60)))

F2023 == Form(2023, Some(Str(120)), Some(Str(60)))

\* a form without a CYTotalExpensesAmt element
F2023NoExpenses == Form(2023, Some(Str(150)), None)

\* "hl7": a file whose name does not start with "20"
StemHL7 == <<104, 108, 55>>

\* the form of 2021 in a file named hl7.xml, its year in TaxYr
F2021ByTaxYr ==
    Document(StemHL7, TRUE, Some(Str(2021)), Some(Section(Some(Str(100)), Some(Str(60)))))

\* The directories, each in the order of its file names; in the last the
\* file of the later year has the smaller name.
FormDirs == {<<>>, <<F2021>>, <<F2021, F2023>>, <<F2023NoExpenses, F2021ByTaxYr>>}

FinancialHealthMetrics(years) ==
    [years |-> years,
     latest_year |-> MaxOf({years[i].year : i \in 1..Len(years)}),
     years_available |-> [i \in 1..Len(years) |-> years[i].year]]

\* The record of a filing that has the two totals and no other element.
TotalsOnly(year, total_revenue, total_expenses) ==
    FinancialYearData(year, total_revenue, total_expenses,
                      total_revenue - total_expenses)
    @@ [program_service_revenue |-> 0, contributions_grants |-> 0,
        equipment_rental |-> None, membership_dues |-> None,
        meetings_conferences |-> None, other_program_services |-> None,
        management_services |-> Some(0), total_employees |-> 0]

\* A cache file that _save_financial_data wrote after the filings of 2021
\* and 2023 were parsed.
CacheSaved ==
    LET years == <<TotalsOnly(2021, 100, 60), TotalsOnly(2023, 120, 60)>>
    IN  [years |-> years,
         revenue_trend |-> calculate_trends(years),
         revenue_composition |-> calculate_revenue_composition(years),
         latest_year |-> 2023,
         years_available |-> <<2021, 2023>>]

\* The saved cache file is what parse_all_forms gives for those filings.
CacheSavedIsParsed == CacheSaved = parse_all_forms(<<F2021, F2023>>).ret

\* Cache files that something else wrote: the year records not in the order
\* of their years, a net_income that is not revenue minus expenses, and
\* five years (the case in which line 646 takes a slice).
CacheUnsorted ==
    FinancialHealthMetrics(<<FinancialYearData(2023, 120, 60, 60),
                             FinancialYearData(2021, 100, 60, 40)>>)

CacheStaleNetIncome ==
    FinancialHealthMetrics(<<FinancialYearData(2021, 100, 60, 40),
                             FinancialYearData(2023, 120, 60, 0)>>)

CacheFiveYears ==
    FinancialHealthMetrics(<<FinancialYearData(2019, 80, 60, 20),
                             FinancialYearData(2020, 90, 60, 30),
                             FinancialYearData(2022, 110, 60, 50),
                             FinancialYearData(2021, 100, 60, 40),
                             FinancialYearData(2023, 120, 60, 60)>>)

CacheFiles ==
    {[kind |-> "missing"], [kind |-> "invalid"]}
    \cup {[kind |-> "json", metrics |-> m] :
            m \in {CacheSaved, CacheUnsorted, CacheStaleNetIncome, CacheFiveYears}}

FinOps == {"summary", "chart", "table"}

\* FinancialDataService(), lines 14-18: nothing is loaded yet.
InitFin ==
    /\ xml_dir \in FormDirs
    /\ cache_file \in CacheFiles
    /\ heap = <<>>
    /\ cached_data = None
    /\ refreshes = 0
    /\ f_pc = "idle"
    /\ f_op = ""
    /\ f_metrics = None
    /\ f_loc = None
    /\ f_result = None
    /\ f_seen = {}
    /\ f_queries = 0
    /\ CalcIdle
    /\ SvcIdle
    /\ ParseIdle
    /\ StoreIdle

\* The snapshot self._cached_data refers to, as a set of at most one value.
CachedSnapshot(h, ref) == IF IsSome(ref) THEN {h[Val(ref)]} ELSE {}

\* Lines 35-39 and 41-46: the parsed snapshot is published and saved; an
\* exception of parse_all_forms leaves everything as it was.
LoadParsed(h, file, parsed) ==
    IF IsOk(parsed)
    THEN [exc |-> "", heap |-> Append(h, parsed.ret),
          cached_data |-> Some(Len(h) + 1),
          cache_file |-> [kind |-> "json", metrics |-> parsed.ret]]
    ELSE [exc |-> parsed.exc, heap |-> h, cached_data |-> None,
          cache_file |-> file]

\* _load_financial_data, lines 26-39, with _save_financial_data, lines
\* 41-46: the heap, self._cached_data and the cache file afterwards, and the
\* exception if parse_all_forms raised.
load_financial_data(h, file, dir) ==
    IF file.kind = "json"
    THEN [exc |-> "", heap |-> Append(h, file.metrics),
          cached_data |-> Some(Len(h) + 1), cache_file |-> file]
    ELSE LoadParsed(h, file, parse_all_forms(dir))

\* The form directory changes on disk.
WriteForms(dir) ==
    /\ dir # xml_dir
    /\ xml_dir' = dir
    /\ UNCHANGED <<cache_file, heap, cached_data, refreshes, f_pc, f_op,
                   f_metrics, f_loc, f_result, f_seen, f_queries,
                   calcVars, svcVars, parseVars, storeVars>>

\* A refresh that drops the held snapshot when parse_all_forms raises.
PublishParsedOrDrop(parsed) ==
    IF IsOk(parsed)
    THEN /\ heap' = Append(heap, parsed.ret)
         /\ cached_data' = Some(Len(heap) + 1)
         /\ cache_file' = [kind |-> "json", metrics |-> parsed.ret]
         /\ f_seen' = IF f_pc \in {"idle", "done"} THEN f_seen
                      ELSE f_seen \cup {parsed.ret}
    ELSE /\ cached_data' = None
         /\ UNCHANGED <<heap, cache_file, f_seen>>

\* Lines 50-52: self._cached_data = parser.parse_all_forms() and
\* _save_financial_data(); a running query has then seen the new snapshot.
PublishParsed(parsed) ==
    IF IsOk(parsed)
    THEN /\ heap' = Append(heap, parsed.ret)
         /\ cached_data' = Some(Len(heap) + 1)
         /\ cache_file' = [kind |-> "json", metrics |-> parsed.ret]
         /\ f_seen' = IF f_pc \in {"idle", "done"} THEN f_seen
                      ELSE f_seen \cup {parsed.ret}
    ELSE UNCHANGED <<heap, cached_data, cache_file, f_seen>>

\* refresh_financial_data, lines 48-52: a new snapshot is parsed, published
\* and saved; when parse_all_forms raises nothing changes.
RefreshFinancialData ==
    /\ refreshes < MaxRefreshes
    /\ refreshes' = refreshes + 1
    /\ PublishParsed(parse_all_forms(xml_dir))
    /\ UNCHANGED <<xml_dir, f_pc, f_op, f_metrics, f_loc, f_result, f_queries,
                   calcVars, svcVars, parseVars, storeVars>>

\* A caller starts a financial query.
FinQueryCall(op) ==
    /\ f_pc = "idle"
    /\ f_queries < MaxFinQueries
    /\ f_queries' = f_queries + 1
    /\ f_op' = op
    /\ f_pc' = "get_financial_health_metrics"
    /\ f_seen' = CachedSnapshot(heap, cached_data)
    /\ UNCHANGED <<xml_dir, cache_file, heap, cached_data, refreshes,
                   f_metrics, f_loc, f_result, calcVars, svcVars, parseVars, storeVars>>

\* The query ends with the outcome result.
FinFinish(result) ==
    /\ f_pc' = "done"
    /\ f_result' = Some(result)

\* metrics = self.get_financial_health_metrics(), lines 20-24 (and 56, 308,
\* 643): the first call loads the snapshot.
GetFinancialHealthMetrics ==
    /\ f_pc = "get_financial_health_metrics"
    /\ LET loaded == IF IsNone(cached_data)
                     THEN load_financial_data(heap, cache_file, xml_dir)
                     ELSE [exc |-> "", heap |-> heap, cached_data |-> cached_data,
                           cache_file |-> cache_file]
       IN  /\ heap' = loaded.heap
           /\ cached_data' = loaded.cached_data
           /\ cache_file' = loaded.cache_file
           /\ f_seen' = f_seen \cup CachedSnapshot(loaded.heap, loaded.cached_data)
           /\ IF loaded.exc # ""
              THEN FinFinish(Raise(loaded.exc)) /\ UNCHANGED f_metrics
              ELSE /\ f_metrics' = loaded.cached_data
                   /\ f_pc' = f_op
                   /\ UNCHANGED f_result
    /\ UNCHANGED <<xml_dir, refreshes, f_op, f_loc, f_queries, calcVars, svcVars, parseVars, storeVars>>

\* latest_year = metrics.years[-1] if metrics.years else None, and the
\* return {} of lines 309-312
SummaryLatestYear ==
    /\ f_pc = "summary"
    /\ LET years == heap[Val(f_metrics)].years
       IN  IF years = <<>>
           THEN FinFinish(Ok([empty |-> TRUE])) /\ UNCHANGED f_loc
           ELSE /\ f_loc' = Some(Last(years))
                /\ f_pc' = "summary_growth"
                /\ UNCHANGED f_result
    /\ UNCHANGED <<xml_dir, cache_file, heap, cached_data, refreshes, f_op,
                   f_metrics, f_seen, f_queries, calcVars, svcVars, parseVars, storeVars>>

\* Lines 314-353 as they would be if they read self._cached_data again
\* instead of the local metrics.
SummaryGrowthReadingCachedData ==
    /\ f_pc = "summary_growth"
    /\ FinFinish(Ok(FinancialSummary(heap[Val(cached_data)], Val(f_loc))))
    /\ UNCHANGED <<xml_dir, cache_file, heap, cached_data, refreshes, f_op,
                   f_metrics, f_loc, f_seen, f_queries, calcVars, svcVars, parseVars, storeVars>>

\* Lines 314-353: the growth rates and the returned dict, from the local
\* metrics.
SummaryGrowth ==
    /\ f_pc = "summary_growth"
    /\ FinFinish(Ok(FinancialSummary(heap[Val(f_metrics)], Val(f_loc))))
    /\ UNCHANGED <<xml_dir, cache_file, heap, cached_data, refreshes, f_op,
                   f_metrics, f_loc, f_seen, f_queries, calcVars, svcVars, parseVars, storeVars>>

\* get_revenue_expense_trend_chart, line 58
ChartLabelsStep ==
    /\ f_pc = "chart"
    /\ f_loc' = Some(ChartLabels(heap[Val(f_metrics)].years))
    /\ f_pc' = "chart_data"
    /\ UNCHANGED <<xml_dir, cache_file, heap, cached_data, refreshes, f_op,
                   f_metrics, f_result, f_seen, f_queries, calcVars, svcVars, parseVars, storeVars>>

\* get_revenue_expense_trend_chart, lines 59-88
ChartDataStep ==
    /\ f_pc = "chart_data"
    /\ FinFinish(Ok(ChartData(Val(f_loc), heap[Val(f_metrics)].years)))
    /\ UNCHANGED <<xml_dir, cache_file, heap, cached_data, refreshes, f_op,
                   f_metrics, f_loc, f_seen, f_queries, calcVars, svcVars, parseVars, storeVars>>

\* get_detailed_financial_table, lines 646-647: recent_years is bound and
\* sorted in place, which reorders metrics.years when it is the same list.
TableSort ==
    /\ f_pc = "table"
    /\ LET years == heap[Val(f_metrics)].years
       IN  /\ f_loc' = Some(RecentYearsSorted(years))
           /\ heap' = [heap EXCEPT ![Val(f_metrics)].years =
                                       YearsAfterTableSort(years)]
    /\ f_pc' = "table_build"
    /\ UNCHANGED <<xml_dir, cache_file, cached_data, refreshes, f_op,
                   f_metrics, f_result, f_seen, f_queries, calcVars, svcVars, parseVars, storeVars>>

\* get_detailed_financial_table, lines 649-736
TableBuild ==
    /\ f_pc = "table_build"
    /\ FinFinish(Ok(DetailedTable(Val(f_loc))))
    /\ UNCHANGED <<xml_dir, cache_file, heap, cached_data, refreshes, f_op,
                   f_metrics, f_loc, f_seen, f_queries, calcVars, svcVars, parseVars, storeVars>>

\* The caller takes the outcome; the next query can start.
FinReturn ==
    /\ f_pc = "done"
    /\ f_pc' = "idle"
    /\ f_op' = ""
    /\ f_metrics' = None
    /\ f_loc' = None
    /\ f_result' = None
    /\ f_seen' = {}
    /\ UNCHANGED <<xml_dir, cache_file, heap, cached_data, refreshes,
                   f_queries, calcVars, svcVars, parseVars, storeVars>>

NextFin ==
    \/ \E dir \in FormDirs : WriteForms(dir)
    \/ RefreshFinancialData
    \/ \E op \in FinOps : FinQueryCall(op)
    \/ GetFinancialHealthMetrics
    \/ SummaryLatestYear
    \/ SummaryGrowth
    \/ ChartLabelsStep
    \/ ChartDataStep
    \/ TableSort
    \/ TableBuild
    \/ FinReturn

SpecFin == InitFin /\ [][NextFin]_vars

(***************************************************************************)
(* Form990Parser on its own: one document, and a batch of documents        *)
(***************************************************************************)
\* The most ProgramServiceRevenueGrp elements of a document, and the most
\* documents of a batch.
MaxGroups == 1

MaxDocs == 3

\* "Member Dues", "ONC GRANT"
TextMemberDuesTitle == <<77, 101, 109, 98, 101, 114, 32, 68, 117, 101, 115>>

TextOncGrant == <<79, 78, 67, 32, 71, 82, 65, 78, 84>>

\* The elements of an amount: none, without text, not a number, a number.
AmountElements(n) == {None, Some(<<>>), Some(TextNA), Some(Str(n))}

ProgramServiceGroupElements ==
    [Desc : {None, Some(<<>>), Some(TextMemberDuesTitle), Some(TextOncGrant)},
     TotalRevenueColumnAmt : AmountElements(40)]

ManagementGroupElements ==
    {None} \cup {Some([TotalAmt |-> e]) : e \in AmountElements(30)}

\* The IRS990 sections of the documents that are parsed one at a time:
\* every combination of the top-level elements without a group, and every
\* list of program-service revenue groups beside the two totals.
Sections ==
    [CYTotalRevenueAmt : AmountElements(100) \cup {Some(<<Hyphen>> \o Str(20))},
     CYTotalExpensesAmt : {None, Some(Str(60))},
     CYProgramServiceRevenueAmt : {None, Some(Str(100))},
     CYContributionsGrantsAmt : {None},
     TotalEmployeeCnt : {None, Some(TextNA), Some(Str(7))},
     FeesForServicesManagementGrp : ManagementGroupElements,
     ProgramServiceRevenueGrp : {<<>>},
     OtherExpensesGrp : {<<>>}]
    \cup
    {[Section(Some(Str(100)), Some(Str(60))) EXCEPT
         !.CYProgramServiceRevenueAmt = revenue,
         !.FeesForServicesManagementGrp = management_grp,
         !.ProgramServiceRevenueGrp = groups] :
        revenue \in {None, Some(Str(100))},
        management_grp \in {None, Some([TotalAmt |-> Some(Str(30))])},
        groups \in ListsOver(ProgramServiceGroupElements, MaxGroups)}

\* Well-formed documents with a section and a year, of the years around the
\* cutover of management_services.
SingleDocuments ==
    {Document(Str(year), TRUE, None, Some(section)) :
        year \in {2023, 2024, 2025}, section \in Sections}

\* "20ab": a stem that starts with "20" and has no year in its first four
\* characters
Stem20ab == <<50, 48, 97, 98>>

\* "990-2023": a stem with its year at the end
Stem990 == <<57, 57, 48, 45>> \o Str(2023)

\* Documents with a section, by the file name and by the TaxYr element they
\* have: a name with a year, without one and with "20" and no year; no
\* TaxYr, an empty one, a year and a text that is no number.
YearDocuments ==
    {Document(stem, TRUE, TaxYr, Some(Section(Some(Str(100)), Some(Str(60))))) :
        stem \in {Str(2023), StemHL7, Stem20ab, Stem990},
        TaxYr \in {None, Some(<<>>), Some(Str(2022)), Some(TextNA)}}

\* The most groups of one kind in a document with several of them.
MaxGrouped == 2

\* "MEMBERSHIP DUES", "Meetings", "Equipment rentals", "EQUIPMENT RENTAL",
\* "Travel"
TextMembershipDuesUpper ==
    <<77, 69, 77, 66, 69, 82, 83, 72, 73, 80, 32, 68, 85, 69, 83>>

TextMeetingsTitle == <<77, 101, 101, 116, 105, 110, 103, 115>>

TextEquipmentRentals == TextEquipmentRental \o <<115>>

TextEquipmentRentalUpper ==
    <<69, 81, 85, 73, 80, 77, 69, 78, 84, 32, 82, 69, 78, 84, 65, 76>>

TextTravel == <<84, 114, 97, 118, 101, 108>>

\* Program-service revenue groups with a description and an amount: two of
\* membership dues, one of meetings, one of no named sub-category.
NamedProgramServiceGroups ==
    {[Desc |-> Some(TextMemberDuesTitle), TotalRevenueColumnAmt |-> Some(Str(40))],
     [Desc |-> Some(TextMembershipDuesUpper), TotalRevenueColumnAmt |-> Some(Str(25))],
     [Desc |-> Some(TextMeetingsTitle), TotalRevenueColumnAmt |-> Some(Str(10))],
     [Desc |-> Some(TextOncGrant), TotalRevenueColumnAmt |-> Some(Str(5))]}

\* Other-expense groups: two of equipment rental with an amount, one whose
\* amount is not a number, one of another expense.
NamedOtherExpenseGroups ==
    {[Desc |-> Some(TextEquipmentRentals), TotalAmt |-> Some(Str(7))],
     [Desc |-> Some(TextEquipmentRentalUpper), TotalAmt |-> Some(Str(3))],
     [Desc |-> Some(TextEquipmentRental), TotalAmt |-> Some(TextNA)],
     [Desc |-> Some(TextTravel), TotalAmt |-> Some(Str(9))]}

\* Documents of 2023 with several groups of a kind, in every order, and a
\* program-service revenue below, between and above the sums of the groups.
GroupedDocuments ==
    {Document(Str(2023), TRUE, None,
              Some([Section(Some(Str(150)), Some(Str(90))) EXCEPT
                       !.CYProgramServiceRevenueAmt = revenue,
                       !.ProgramServiceRevenueGrp = groups,
                       !.OtherExpensesGrp = expenses])) :
        revenue \in {None, Some(Str(40)), Some(Str(50)), Some(Str(100))},
        groups \in ListsOver(NamedProgramServiceGroups, MaxGrouped),
        expenses \in ListsOver(NamedOtherExpenseGroups, MaxGrouped)}

InitSingle ==
    /\ p_batch \in {<<doc>> : doc \in SingleDocuments \cup YearDocuments
                                         \cup GroupedDocuments}
    /\ p_pc = "ready"
    /\ p_out = None
    /\ CalcIdle
    /\ SvcIdle
    /\ FinIdle
    /\ StoreIdle

\* Form990Parser.parse_single_form(xml_file)
ParseSingleForm ==
    /\ p_pc = "ready"
    /\ p_out' = parse_single_form(p_batch[1])
    /\ p_pc' = "parse_single_form"
    /\ UNCHANGED <<p_batch, calcVars, svcVars, finVars, storeVars>>

NextSingle == ParseSingleForm

SpecSingle == InitSingle /\ [][NextSingle]_vars

\* The documents of the batches.
\* 2021b.xml: a second filing of 2021
F2021Amended ==
    Document(Append(Str(2021), 98), TRUE, None,
             Some(Section(Some(Str(110)), Some(Str(60)))))

\* a year with a negative total revenue
F2022Loss == Form(2022, Some(<<Hyphen>> \o Str(20)), Some(Str(60)))

\* a filing without a CYTotalRevenueAmt element: its total revenue is 0
F2018NoRevenue == Form(2018, None, Some(Str(60)))

\* a filing with revenue sources and a program-service group
F2024Composed ==
    Document(Str(2024), TRUE, None,
             Some([Section(Some(Str(150)), Some(Str(90))) EXCEPT
                      !.CYProgramServiceRevenueAmt = Some(Str(100)),
                      !.CYContributionsGrantsAmt = Some(Str(30)),
                      !.ProgramServiceRevenueGrp =
                          <<[Desc |-> Some(TextMemberDuesTitle),
                             TotalRevenueColumnAmt |-> Some(Str(40))]>>]))

\* a file that is not well-formed XML
Malformed2020 == Document(Str(2020), FALSE, None, None)

\* a document without an IRS990 element
NoSection2019 == Document(Str(2019), TRUE, None, None)

\* hl7x.xml: no year in the file name and no TaxYr element
NoYear ==
    Document(Append(StemHL7, 120), TRUE, None,
             Some(Section(Some(Str(100)), Some(Str(60)))))

\* a filing whose program-service group has an amount that is not a number
F2025BadGroup ==
    Document(Str(2025), TRUE, None,
             Some([Section(Some(Str(130)), Some(Str(60))) EXCEPT
                      !.ProgramServiceRevenueGrp =
                          <<[Desc |-> Some(TextOncGrant),
                             TotalRevenueColumnAmt |-> Some(TextNA)]>>]))

BatchDocuments ==
    {F2018NoRevenue, F2021, F2021Amended, F2022Loss, F2023, F2024Composed,
     F2021ByTaxYr, Malformed2020, NoSection2019, NoYear, F2025BadGroup}

\* sorted(data_directory.glob("*.xml")), line 22: distinct file names in
\* ascending order.
SortedByName(dir) ==
    \A i \in 1..(Len(dir) - 1) : StrLess(dir[i].stem, dir[i + 1].stem)

Batches == {dir \in ListsOver(BatchDocuments, MaxDocs) : SortedByName(dir)}

InitBatch ==
    /\ p_batch \in Batches
    /\ p_pc = "ready"
    /\ p_out = None
    /\ CalcIdle
    /\ SvcIdle
    /\ FinIdle
    /\ StoreIdle

\* Form990Parser.parse_all_forms()
ParseAllForms ==
    /\ p_pc = "ready"
    /\ p_out' = parse_all_forms(p_batch)
    /\ p_pc' = "parse_all_forms"
    /\ UNCHANGED <<p_batch, calcVars, svcVars, finVars, storeVars>>

NextBatch == ParseAllForms

SpecBatch == InitBatch /\ [][NextBatch]_vars

(***************************************************************************)
(* DataService: single calls of the lookups, the card listing and the      *)
(* summary on the catalog the service holds                                *)
(***************************************************************************)
\* Indicators of a catalog.
MaxIndicators == 3

\* An indicator measured once, in 2025.
StoreIndicator(id, name, domain, stewards, tags) ==
    [id |-> id, name |-> name, domain |-> domain, stewards |-> stewards,
     tags |-> tags, target |-> None, targets |-> None,
     target_operation |-> None,
     measurements |-> (L2025 :> Measurement(Some(97), None))]

\* Indicators with one or two stewards in either order, of two domains, two
\* of them with the same name, with no tag, one tag and two tags.
StoreIndicators ==
    {StoreIndicator("HL7-1", NameMembers, DomCommunity,
                    <<"HL7 International">>, <<"KPI">>),
     StoreIndicator("CSDO-2", NameBallots, DomAdoption,
                    <<"CSDO", "HL7 International">>, <<>>),
     StoreIndicator("CSDO-14", NameTracks, DomAdoption,
                    <<"CSDO">>, <<"ACCELERATOR", "KPI">>),
     StoreIndicator("HL7-7", NameBallots, DomCommunity,
                    <<"HL7 International", "CSDO">>, <<"ACCELERATOR">>)}

\* self._data.indicators: a dict keyed by id, in any insertion order.
StoreCatalogs ==
    {[time_periods |-> <<L2024, L2025>>, indicators |-> inds] :
        inds \in {l \in ListsOver(StoreIndicators, MaxIndicators) :
                      \A i, j \in 1..Len(l) : l[i].id = l[j].id => i = j}}

\* Arguments of the calls: a steward, a domain or a tag of the catalog, one
\* that no indicator has, the empty string and None.
DomOther == <<90>>

StewardArgs == {None, Some(""), Some("CSDO"), Some("HL7 International"), Some("ONC")}

DomainArgs == {None, Some(<<>>), Some(DomAdoption), Some(DomCommunity), Some(DomOther)}

TagArgs == {None, Some(""), Some("KPI"), Some("ACCELERATOR")}

InitStore ==
    /\ \E catalog \in StoreCatalogs :
           /\ json_file = [kind |-> "json", catalog |-> catalog]
           /\ data = catalog
    /\ reloads = 0
    /\ q_pc = "idle"
    /\ q_op = ""
    /\ q_steward = None
    /\ q_indicators = <<>>
    /\ q_cards = <<>>
    /\ q_loc = None
    /\ q_summary = None
    /\ q_result = None
    /\ q_seen = {}
    /\ queries = 0
    /\ http_resp = None
    /\ s_call = None
    /\ s_pc = "ready"
    /\ s_out = None
    /\ CalcIdle
    /\ FinIdle
    /\ ParseIdle

\* data_service.get_kpi_cards(steward, domain, kpi_only, tag_filter)
GetKpiCards ==
    /\ s_pc = "ready"
    /\ \E steward \in StewardArgs, domain \in DomainArgs,
          kpi_only \in BOOLEAN, tag_filter \in TagArgs :
           /\ s_call' = Some([op |-> "get_kpi_cards", steward |-> steward,
                              domain |-> domain, kpi_only |-> kpi_only,
                              tag_filter |-> tag_filter])
           /\ s_out' = get_kpi_cards(data, steward, domain, kpi_only, tag_filter)
    /\ s_pc' = "returned"
    /\ UNCHANGED <<calcVars, svcVars, finVars, parseVars>>

\* data_service.get_kpi_summary(steward, domain, tag_filter)
GetKpiSummary ==
    /\ s_pc = "ready"
    /\ \E steward \in StewardArgs, domain \in DomainArgs, tag_filter \in TagArgs :
           /\ s_call' = Some([op |-> "get_kpi_summary", steward |-> steward,
                              domain |-> domain, tag_filter |-> tag_filter])
           /\ s_out' = get_kpi_summary(data, steward, domain, tag_filter)
    /\ s_pc' = "returned"
    /\ UNCHANGED <<calcVars, svcVars, finVars, parseVars>>

\* data_service.get_indicator_by_id(indicator_id)
GetIndicatorById ==
    /\ s_pc = "ready"
    /\ \E indicator_id \in IndicatorIds \cup {"HL7-7", ""} :
           /\ s_call' = Some([op |-> "get_indicator_by_id",
                              indicator_id |-> indicator_id])
           /\ s_out' = Ok(get_indicator_by_id(data, indicator_id))
    /\ s_pc' = "returned"
    /\ UNCHANGED <<calcVars, svcVars, finVars, parseVars>>

\* data_service.get_indicators_by_steward(steward)
GetIndicatorsBySteward ==
    /\ s_pc = "ready"
    /\ \E steward \in {"", "CSDO", "HL7 International", "ONC"} :
           /\ s_call' = Some([op |-> "get_indicators_by_steward",
                              steward |-> steward])
           /\ s_out' = Ok(get_indicators_by_steward(data, steward))
    /\ s_pc' = "returned"
    /\ UNCHANGED <<calcVars, svcVars, finVars, parseVars>>

\* data_service.get_indicators_by_domain(domain)
GetIndicatorsByDomain ==
    /\ s_pc = "ready"
    /\ \E domain \in {<<>>, DomAdoption, DomCommunity, DomOther} :
           /\ s_call' = Some([op |-> "get_indicators_by_domain",
                              domain |-> domain])
           /\ s_out' = Ok(get_indicators_by_domain(data, domain))
    /\ s_pc' = "returned"
    /\ UNCHANGED <<calcVars, svcVars, finVars, parseVars>>

NextStore ==
    \/ GetKpiCards
    \/ GetKpiSummary
    \/ GetIndicatorById
    \/ GetIndicatorsBySteward
    \/ GetIndicatorsByDomain

SpecStore == InitStore /\ [][NextStore]_vars

(***************************************************************************)
(* Claims about the metrics engine                                         *)
(***************************************************************************)
\* The lexicographically latest label of a non-empty list.
LatestLabel(periods) ==
    CHOOSE p \in Range(periods) : \A q \in Range(periods) : ~StrLess(p, q)

\* The year of a label of the convention: the text before the first
\* hyphen of "YYYY-Txx", the label itself for a bare "YYYY".
YearOfLabel(label) ==
    IF \E i \in 1..Len(label) : label[i] = Hyphen
    THEN SubSeq(label, 1, (CHOOSE i \in 1..Len(label) :
                    label[i] = Hyphen /\ \A j \in 1..(i - 1) : label[j] # Hyphen) - 1)
    ELSE label

\* The rational r equals num / den (den # 0).
RatIs(r, num, den) == r.n * den = num * r.d

ProgressDone == calc_pc = "calculate_progress_to_target" /\ IsOk(calc_out)

\* The indicator has a reading in the current period.
HasCurrentValue ==
    /\ kpi_periods # <<>>
    /\ LatestLabel(kpi_periods) \in DOMAIN kpi_indicator.measurements
    /\ IsSome(kpi_indicator.measurements[LatestLabel(kpi_periods)].value)

CurrentMeasurement == kpi_indicator.measurements[LatestLabel(kpi_periods)]

\* The indicator has an annual target for the year of the current period.
HasAnnualTarget ==
    /\ IsSome(kpi_indicator.targets)
    /\ YearOfLabel(LatestLabel(kpi_periods)) \in DOMAIN Val(kpi_indicator.targets)

\* The target type the fixed priority of the specification selects.
ExpectedTargetType ==
    IF IsSome(CurrentMeasurement.target) THEN "period"
    ELSE IF HasAnnualTarget THEN "annual"
    ELSE IF IsSome(kpi_indicator.target) THEN "legacy"
    ELSE "none"

\* C6: for an indicator with a value in the current period the target source
\* is chosen in the fixed priority period > annual > legacy > none, and type
\* "none" comes with an undefined progress and target.
C6_TargetPriority ==
    (ProgressDone /\ HasCurrentValue) =>
        /\ calc_out.ret.target_type = Some(ExpectedTargetType)
        /\ (ExpectedTargetType = "none" =>
                /\ IsNone(calc_out.ret.progress)
                /\ IsNone(calc_out.ret.target_value))

\* The priority of C6 on the labels with a hyphen, where the engine finds
\* the year of the current period.
C6_TargetPriorityOnSubPeriodLabels ==
    (ProgressDone /\ HasCurrentValue /\ HasHyphen(LatestLabel(kpi_periods))) =>
        /\ calc_out.ret.target_type = Some(ExpectedTargetType)
        /\ (ExpectedTargetType = "none" =>
                /\ IsNone(calc_out.ret.progress)
                /\ IsNone(calc_out.ret.target_value))

\* C7: a current measurement with a value and no target of its own, and an
\* annual target stored under the year of the current period, give type
\* "annual" with that year's target, for "YYYY-Txx" and bare "YYYY" labels.
C7_AnnualTargetForEveryLabel ==
    (/\ ProgressDone
     /\ HasCurrentValue
     /\ IsNone(CurrentMeasurement.target)
     /\ HasAnnualTarget) =>
        /\ calc_out.ret.target_type = Some("annual")
        /\ calc_out.ret.target_value =
             Some(R(Val(kpi_indicator.targets)[YearOfLabel(LatestLabel(kpi_periods))]))

\* sum of f over the finite set S
RECURSIVE SumOver(_, _)
SumOver(f, S) ==
    IF S = {} THEN 0
    ELSE LET x == CHOOSE y \in S : TRUE IN f[x] + SumOver(f, S \ {x})

\* The readings of the current year: period label -> value, for the periods
\* that start with the year of the current period and have a value.
YearReadings ==
    LET year == YearOfLabel(LatestLabel(kpi_periods))
        ps == {p \in DOMAIN kpi_indicator.measurements :
                  /\ Len(p) >= Len(year)
                  /\ \A i \in 1..Len(year) : p[i] = year[i]
                  /\ kpi_indicator.measurements[p].value # None}
    IN  [p \in ps |-> kpi_indicator.measurements[p].value[1]]

\* C8: for target type "annual" the value compared with the target is the
\* sum of the readings of the current year (mode "sum" or unset) or their
\* mean (mode "average"), periods without a value left out of both.
C8_AnnualAggregate ==
    (ProgressDone /\ calc_out.ret.target_type = Some("annual")) =>
        LET readings == YearReadings
            total == SumOver(readings, DOMAIN readings)
            v == Val(calc_out.ret.value)
        IN  IF kpi_indicator.target_operation = Some("average")
            THEN RatIs(v, total, Cardinality(DOMAIN readings))
            ELSE RatIs(v, total, 1)

C8_Witness ==
    /\ ProgressDone
    /\ calc_out.ret.target_type = Some("annual")
    /\ kpi_indicator.target_operation = Some("average")
    /\ DOMAIN kpi_indicator.measurements = {L2025T1, L2025T2}
    /\ kpi_indicator.measurements[L2025T1].value = Some(95)
    /\ kpi_indicator.measurements[L2025T2].value = Some(97)
    /\ calc_out.ret.value = Some(R(96))

\* C9: with the resolved target t and the comparison value v (the current
\* reading, or the annual aggregate for type "annual"), progress is 100 when
\* t = 0 and v = 0, 0 when t = 0 and v # 0, and v / t * 100 otherwise, not
\* clamped.
C9_ProgressFormula ==
    (ProgressDone /\ IsSome(calc_out.ret.target_value)) =>
        LET t == Val(calc_out.ret.target_value)
            v == Val(calc_out.ret.value)
            progress == Val(calc_out.ret.progress)
        IN  /\ (calc_out.ret.target_type # Some("annual") =>
                    RatIs(v, Val(CurrentMeasurement.value), 1))
            /\ (t.n = 0 /\ v.n = 0 => RatIs(progress, 100, 1))
            /\ (t.n = 0 /\ v.n # 0 => RatIs(progress, 0, 1))
            /\ (t.n # 0 => RatIs(progress, v.n * t.d * 100, v.d * t.n))

C9_Witness ==
    /\ ProgressDone
    /\ calc_out.ret.value = Some(R(150))
    /\ calc_out.ret.target_value = Some(R(100))
    /\ calc_out.ret.progress = Some(R(150))

TrendDone ==
    calc_pc = "calculate_trend" /\ IsOk(calc_out) /\ IsSome(calc_out.ret)

\* C10: change_pct is 100 (current > 0) or 0 (current <= 0) for previous = 0,
\* (current - previous) / |previous| * 100 when the two have strictly
\* opposite signs, (current - previous) / previous * 100 otherwise; the label
\* is "up", "down" or "stable" as change_pct is > 0, < 0 or = 0.
C10_ChangePct ==
    TrendDone =>
        LET t == Val(calc_out.ret)
            c == t.current
            p == t.previous
            pct == t.change_pct
            diff == c.n * p.d - p.n * c.d
        IN  /\ (p.n = 0 /\ c.n > 0 => RatIs(pct, 100, 1))
            /\ (p.n = 0 /\ c.n <= 0 => RatIs(pct, 0, 1))
            /\ ((p.n < 0 /\ c.n > 0) \/ (p.n > 0 /\ c.n < 0) =>
                    RatIs(pct, diff * p.d * 100, c.d * p.d * Abs(p.n)))
            /\ (p.n # 0 /\ ~((p.n < 0 /\ c.n > 0) \/ (p.n > 0 /\ c.n < 0)) =>
                    RatIs(pct, diff * p.d * 100, c.d * p.d * p.n))
            /\ (t.trend = "up" <=> pct.n > 0)
            /\ (t.trend = "down" <=> pct.n < 0)
            /\ (t.trend = "stable" <=> pct.n = 0)

C10_Witness ==
    /\ TrendDone
    /\ Val(calc_out.ret).previous = R(-10)
    /\ Val(calc_out.ret).current = R(10)
    /\ Val(calc_out.ret).change_pct = R(200)
    /\ Val(calc_out.ret).trend = "up"

(***************************************************************************)
(* Claims about DataService and its HTTP layer                             *)
(***************************************************************************)
\* The result of the query op computed on the one catalog c.
AtomicResult(op, steward, c) ==
    IF op = "cards" THEN get_kpi_cards(c, steward, None, FALSE, None)
    ELSE IF op = "summary" THEN get_kpi_summary(c, steward, None, None)
    ELSE get_dashboard_metrics(c, steward)

\* C1: the whole result of a KPI query that ran beside reload_data is
\* computed from one catalog snapshot, one that self._data held while the
\* query ran; it never combines the indicators of one snapshot with the
\* time-period list of another.
C1_QueryFromOneSnapshot ==
    q_pc = "done" =>
        \E c \in q_seen : q_result = AtomicResult(q_op, q_steward, c)

\* C5: a request for an indicator id that is not in the catalog is answered
\* 404, never 500.
C5_UnknownIndicatorIsNotFound ==
    (IsSome(http_resp) /\ ~Val(http_resp).in_catalog) =>
        Val(http_resp).status = 404

(***************************************************************************)
(* Claims about FinancialDataService                                       *)
(***************************************************************************)
\* The result of the financial query op computed on the one snapshot m.
AtomicFinResult(op, m) ==
    IF op = "summary" THEN get_financial_summary(m)
    ELSE IF op = "chart" THEN get_revenue_expense_trend_chart(m)
    ELSE get_detailed_financial_table(m)

\* C2: a financial query that ran beside refresh_financial_data computed its
\* whole result from a single FinancialHealthMetrics snapshot, one that
\* self._cached_data held while the query ran, never from a mixture of two.
C2_FinQueryFromOneSnapshot ==
    (f_pc = "done" /\ IsOk(Val(f_result))) =>
        \E m \in f_seen : Val(f_result) = AtomicFinResult(f_op, m)

\* A query ended whose snapshot was replaced by a different one while it ran.
C2_Witness ==
    /\ f_pc = "done"
    /\ IsOk(Val(f_result))
    /\ Cardinality(f_seen) >= 2
    /\ \E m \in f_seen : Val(f_result) # AtomicFinResult(f_op, m)

\* C3: every year record of the snapshot satisfies
\* net_income = total_revenue - total_expenses, after any first load (from
\* the cache file or by parsing) and any refreshes.
C3_NetIncomeIsRevenueMinusExpenses ==
    IsSome(cached_data) =>
        \A i \in 1..Len(heap[Val(cached_data)].years) :
            LET r == heap[Val(cached_data)].years[i]
            IN  r.net_income = r.total_revenue - r.total_expenses

\* C4: a step of a query, with no reload and no refresh, leaves the
\* indicator catalog and the cached financial snapshot, the order of its
\* year records included, as they were.
C4_QueriesModifyNothing ==
    [][(IsSome(cached_data) /\ refreshes' = refreshes /\ reloads' = reloads)
         => /\ data' = data
            /\ cached_data' = cached_data
            /\ heap'[Val(cached_data)] = heap[Val(cached_data)]]_vars

(***************************************************************************)
(* Further claims about the metrics engine                                 *)
(***************************************************************************)
\* The second-latest label of a list of at least two distinct labels.
SecondLatestLabel(periods) ==
    LatestLabel(SelectSeq(periods, LAMBDA p : p # LatestLabel(periods)))

\* The indicator has a measurement with a value under the label.
HasValueAt(label) ==
    /\ label \in DOMAIN kpi_indicator.measurements
    /\ IsSome(kpi_indicator.measurements[label].value)

\* C11: calculate_trend returns no trend exactly when the catalog lists
\* fewer than two periods or the indicator has no measurement or a None
\* value in one of the two latest labels; otherwise the trend's current and
\* previous are the values in the latest and the second-latest label.
C11_TrendDefinedExactly ==
    calc_pc = "calculate_trend" =>
        /\ IsOk(calc_out)
        /\ IsNone(calc_out.ret) <=>
              \/ Len(kpi_periods) < 2
              \/ ~HasValueAt(LatestLabel(kpi_periods))
              \/ ~HasValueAt(SecondLatestLabel(kpi_periods))
        /\ IsSome(calc_out.ret) =>
              /\ Val(calc_out.ret).current =
                   R(Val(kpi_indicator.measurements[LatestLabel(kpi_periods)].value))
              /\ Val(calc_out.ret).previous =
                   R(Val(kpi_indicator.measurements[SecondLatestLabel(kpi_periods)].value))

\* A trend over a list of three periods stored latest first, whose oldest
\* period has another value than the two the trend compares.
C11_Witness ==
    /\ TrendDone
    /\ kpi_periods = <<L2025T2, L2025T1, L2024>>
    /\ HasValueAt(L2024)
    /\ kpi_indicator.measurements[L2024].value = Some(-5)
    /\ Val(calc_out.ret).current = R(10)
    /\ Val(calc_out.ret).previous = R(0)

\* No trend because the second-latest period has a measurement without a
\* value, although two other periods have values.
C11_WitnessNoTrend ==
    /\ calc_pc = "calculate_trend"
    /\ calc_out = Ok(None)
    /\ Len(kpi_periods) = 3
    /\ HasValueAt(LatestLabel(kpi_periods))
    /\ SecondLatestLabel(kpi_periods) \in DOMAIN kpi_indicator.measurements
    /\ ~HasValueAt(SecondLatestLabel(kpi_periods))

(***************************************************************************)
(* Claims about Form990Parser                                              *)
(***************************************************************************)
BatchDone == p_pc = "parse_all_forms"

BatchParsed == BatchDone /\ IsOk(p_out)

\* The growth point g is the change from prev to cur in percent of prev,
\* and is undefined exactly when prev <= 0.
GrowthIs(g, cur, prev) ==
    /\ IsNone(g) <=> prev <= 0
    /\ IsSome(g) => RatIs(Val(g), (cur - prev) * 100, prev)

\* C12: in the trend sequence of the year-sorted records, point 0 has no
\* revenue_growth and no expense_growth; for i > 0 revenue_growth is
\* undefined iff the revenue of record i-1 is <= 0 and is otherwise
\* (revenue_i - revenue_{i-1}) / revenue_{i-1} * 100, and expense_growth
\* follows the same rule on expenses, independently of revenue; the
\* predecessor is the previous record, not the previous calendar year.
C12_TrendGrowth ==
    BatchParsed =>
        LET years == p_out.ret.years
            trend == p_out.ret.revenue_trend
        IN  /\ Len(trend) = Len(years)
            /\ IsNone(trend[1].revenue_growth)
            /\ IsNone(trend[1].expense_growth)
            /\ \A i \in 2..Len(years) :
                  /\ GrowthIs(trend[i].revenue_growth,
                              years[i].total_revenue, years[i - 1].total_revenue)
                  /\ GrowthIs(trend[i].expense_growth,
                              years[i].total_expenses, years[i - 1].total_expenses)

\* The records of 2021, 2022 (revenue -20) and 2024: the growth of 2022 is
\* -120 percent of 2021, the revenue growth of 2024 is undefined while its
\* expense growth, over expenses of 60, is 50.
C12_Witness ==
    /\ BatchParsed
    /\ p_batch = <<F2021, F2022Loss, F2024Composed>>
    /\ p_out.ret.revenue_trend[2].revenue_growth = Some(R(-120))
    /\ p_out.ret.revenue_trend[3].revenue_growth = None
    /\ p_out.ret.revenue_trend[3].expense_growth = Some(R(50))

SingleDone == p_pc = "parse_single_form"

\* The number an element stands for: its text when that is a number, the
\* default 0 when the element is absent, empty or not a number.
ValueOrDefault(element) ==
    IF IsSome(element) /\ IsOk(ParseNumber(Val(element)))
    THEN ParseNumber(Val(element)).ret
    ELSE 0

\* The amounts and counts of the record are those of the section, with the
\* default for every field that is absent, empty or not a number.
TopLevelFieldsOf(record, section) ==
    /\ record.total_revenue = ValueOrDefault(section.CYTotalRevenueAmt)
    /\ record.total_expenses = ValueOrDefault(section.CYTotalExpensesAmt)
    /\ record.program_service_revenue =
           ValueOrDefault(section.CYProgramServiceRevenueAmt)
    /\ record.contributions_grants = ValueOrDefault(section.CYContributionsGrantsAmt)
    /\ record.total_employees = ValueOrDefault(section.TotalEmployeeCnt)

\* C13: for a document with its IRS990 section and a resolvable year no
\* absent, empty or non-numeric numeric field makes the extraction fail, the
\* description and amount of a program-service revenue group included: a
\* record is produced and the affected field has its default.
C13_NoFieldFailsExtraction ==
    (SingleDone /\ p_batch[1] \in SingleDocuments) =>
        /\ IsSome(p_out)
        /\ TopLevelFieldsOf(Val(p_out), Val(p_batch[1].IRS990))

\* The same for the documents without a program-service revenue group.
C13_TopLevelFieldsNeverFail ==
    (/\ SingleDone
     /\ p_batch[1] \in SingleDocuments
     /\ Val(p_batch[1].IRS990).ProgramServiceRevenueGrp = <<>>) =>
        /\ IsSome(p_out)
        /\ TopLevelFieldsOf(Val(p_out), Val(p_batch[1].IRS990))

\* C15: the management_services field of a produced record is a number
\* exactly when the record's year is before 2024, namely the TotalAmt of the
\* filing's FeesForServicesManagementGrp or 0 when that has no usable value;
\* from 2024 on it is None whatever the document contains.
C15_ManagementServicesBeforeCutover ==
    (SingleDone /\ IsSome(p_out)) =>
        LET record == Val(p_out)
            management_grp == Val(p_batch[1].IRS990).FeesForServicesManagementGrp
        IN  /\ IsSome(record.management_services) <=> record.year < 2024
            /\ record.year < 2024 =>
                   Val(record.management_services) =
                       IF IsSome(management_grp)
                       THEN ValueOrDefault(Val(management_grp).TotalAmt)
                       ELSE 0

\* A filing of 2024 that still carries a management fee of 30.
C15_Witness ==
    /\ SingleDone
    /\ IsSome(p_out)
    /\ Val(p_out).year = 2024
    /\ Val(p_batch[1].IRS990).FeesForServicesManagementGrp =
           Some([TotalAmt |-> Some(Str(30))])
    /\ Val(p_out).management_services = None

\* A filing of 2023 with the same fee.
C15_WitnessBefore ==
    /\ SingleDone
    /\ IsSome(p_out)
    /\ Val(p_out).year = 2023
    /\ Val(p_batch[1].IRS990).FeesForServicesManagementGrp =
           Some([TotalAmt |-> Some(Str(30))])
    /\ Val(p_out).management_services = Some(30)

\* The documents of the batch that yield a record.
Yielding == {i \in 1..Len(p_batch) : IsSome(parse_single_form(p_batch[i]))}

\* A document that is malformed, has no IRS990 section or no resolvable year.
Unusable(doc) ==
    \/ ~doc.wellformed
    \/ IsNone(doc.IRS990)
    \/ ~IsOk(extract_year(doc))

\* C14: parse_all_forms raises exactly when no document of the batch yields
\* a record; otherwise its result holds exactly one record for each document
\* that parsed, the malformed documents and those without the IRS990 section
\* or a resolvable year being skipped, and its record list is never empty.
C14_BatchFailsOnlyWhenEmpty ==
    BatchDone =>
        /\ ~IsOk(p_out) <=> Yielding = {}
        /\ ~IsOk(p_out) => p_out = Raise("ValueError")
        /\ \A i \in 1..Len(p_batch) : Unusable(p_batch[i]) => i \notin Yielding
        /\ IsOk(p_out) =>
               LET years == p_out.ret.years
               IN  /\ years # <<>>
                   /\ Len(years) = Cardinality(Yielding)
                   /\ \A i \in Yielding :
                          LET record == Val(parse_single_form(p_batch[i]))
                          IN  Cardinality({j \in 1..Len(years) : years[j] = record}) =
                              Cardinality({k \in Yielding :
                                  Val(parse_single_form(p_batch[k])) = record})

\* A batch of a good filing between a malformed file and a document without
\* a year: one record.
C14_Witness ==
    /\ BatchParsed
    /\ p_batch = <<Malformed2020, F2021, NoYear>>
    /\ Len(p_out.ret.years) = 1
    /\ p_out.ret.years[1].year = 2021

\* A batch of which no document yields a record.
C14_WitnessNoRecord ==
    /\ BatchDone
    /\ p_batch = <<NoSection2019, Malformed2020, NoYear>>
    /\ p_out = Raise("ValueError")

\* C16: the result of parse_all_forms has its records in ascending order of
\* year whatever the order of the files; revenue_trend and
\* revenue_composition have the length of years and their element i carries
\* the year and the figures of years[i]; years_available is the sorted list
\* of the records' years; latest_year is the maximum year, the year of the
\* last record.
C16_ResultShape ==
    BatchParsed =>
        LET metrics == p_out.ret
            years == metrics.years
            n == Len(years)
        IN  /\ \A i \in 1..(n - 1) : years[i].year <= years[i + 1].year
            /\ Len(metrics.revenue_trend) = n
            /\ Len(metrics.revenue_composition) = n
            /\ \A i \in 1..n :
                   /\ metrics.revenue_trend[i].year = years[i].year
                   /\ metrics.revenue_trend[i].revenue = years[i].total_revenue
                   /\ metrics.revenue_trend[i].expenses = years[i].total_expenses
                   /\ metrics.revenue_trend[i].net_income = years[i].net_income
                   /\ metrics.revenue_composition[i].year = years[i].year
                   /\ metrics.revenue_composition[i].program_services =
                          years[i].program_service_revenue
                   /\ metrics.revenue_composition[i].contributions =
                          years[i].contributions_grants
            /\ metrics.years_available = [i \in 1..n |-> years[i].year]
            /\ metrics.latest_year = years[n].year
            /\ \A i \in 1..n : years[i].year <= metrics.latest_year

\* Three filings whose file names are not in the order of their years: the
\* filing of 2021 is named hl7.xml and is parsed last.
C16_Witness ==
    /\ BatchParsed
    /\ p_batch = <<F2023, F2024Composed, F2021ByTaxYr>>
    /\ p_out.ret.years_available = <<2021, 2023, 2024>>
    /\ p_out.ret.years[1].year = 2021
    /\ p_out.ret.latest_year = 2024
    /\ p_out.ret.revenue_composition[3].program_services = 100
    /\ p_out.ret.revenue_composition[3].contributions = 30

\* C17: the year is a unique key of a FinancialHealthMetrics collection: no
\* two records of years and no two entries of years_available carry the same
\* year, for any batch, two file names that resolve to one year included.
C17_YearIsUniqueKey ==
    BatchParsed =>
        LET metrics == p_out.ret
        IN  /\ \A i, j \in 1..Len(metrics.years) :
                   metrics.years[i].year = metrics.years[j].year => i = j
            /\ \A i, j \in 1..Len(metrics.years_available) :
                   metrics.years_available[i] = metrics.years_available[j] => i = j

(***************************************************************************)
(* Claims about the lookups, the listing and the summary of DataService    *)
(***************************************************************************)
Called(op) == s_pc = "returned" /\ Val(s_call).op = op

\* A filter argument that was supplied: neither None nor empty.
SuppliedName(filter) == filter # None /\ filter # Some("")

SuppliedDomain(domain) == domain # None /\ domain # Some(<<>>)

\* The positions, in the catalog, of the indicators that pass every supplied
\* filter.
Passing(steward, domain, kpi_only, tag_filter) ==
    {i \in 1..Len(data.indicators) :
        LET ind == data.indicators[i]
        IN  /\ SuppliedName(steward) =>
                   \E k \in 1..Len(ind.stewards) : ind.stewards[k] = Val(steward)
            /\ SuppliedDomain(domain) => ind.domain = Val(domain)
            /\ kpi_only => \E k \in 1..Len(ind.tags) : ind.tags[k] = "KPI"
            /\ SuppliedName(tag_filter) =>
                   \E k \in 1..Len(ind.tags) : ind.tags[k] = Val(tag_filter)}

\* C18: in get_kpi_summary, over the filtered indicators, total_indicators
\* counts every indicator once; every steward of an indicator, primary or
\* not, gets exactly one from it, so that the count of a steward is the
\* number of filtered indicators it is a steward of; the count of a domain
\* is the number of filtered indicators of that domain, and the domain
\* counts sum to total_indicators.
C18_SummaryCounts ==
    Called("get_kpi_summary") =>
        LET call == Val(s_call)
            summary == s_out.ret
            F == Passing(call.steward, call.domain, FALSE, call.tag_filter)
            by_steward == summary.indicators_by_steward
            by_domain == summary.indicators_by_domain
        IN  /\ IsOk(s_out)
            /\ summary.total_indicators = Cardinality(F)
            /\ DOMAIN by_steward =
                   UNION {Range(data.indicators[i].stewards) : i \in F}
            /\ \A st \in DOMAIN by_steward :
                   by_steward[st] =
                       Cardinality({i \in F : st \in Range(data.indicators[i].stewards)})
            /\ DOMAIN by_domain = {data.indicators[i].domain : i \in F}
            /\ \A d \in DOMAIN by_domain :
                   by_domain[d] = Cardinality({i \in F : data.indicators[i].domain = d})
            /\ SumOver(by_domain, DOMAIN by_domain) = summary.total_indicators

\* Three indicators, two of them with two stewards: the steward counts sum
\* to 5, the total is 3.
C18_Witness ==
    /\ Called("get_kpi_summary")
    /\ Val(s_call).steward = None
    /\ Val(s_call).domain = None
    /\ Val(s_call).tag_filter = None
    /\ {data.indicators[i].id : i \in 1..Len(data.indicators)} =
           {"HL7-1", "CSDO-2", "HL7-7"}
    /\ s_out.ret.total_indicators = 3
    /\ s_out.ret.indicators_by_steward =
           ("HL7 International" :> 3) @@ ("CSDO" :> 2)
    /\ s_out.ret.indicators_by_domain = (DomCommunity :> 2) @@ (DomAdoption :> 1)

\* The ids of the indicators of the cards.
CardIds(cards) == {cards[k].indicator : k \in 1..Len(cards)}

\* The ids of the cards that get_kpi_cards returns for the given filters.
ListedIds(steward, domain, kpi_only, tag_filter) ==
    CardIds(get_kpi_cards(data, steward, domain, kpi_only, tag_filter).ret)

\* The indicator of the catalog with the given id.
StoredIndicator(id) ==
    data.indicators[CHOOSE i \in 1..Len(data.indicators) : data.indicators[i].id = id]

StrLessEq(a, b) == a = b \/ StrLess(a, b)

\* C19: get_kpi_cards returns one card for each indicator that passes every
\* supplied filter (the steward is in the steward list, the domain is equal,
\* "KPI" is a tag if kpi_only, tag_filter is a tag) and for no other; the
\* result for a combination of filters is the intersection of the results
\* for each filter alone; the cards are in ascending order of domain and,
\* within a domain, of name.
C19_FiltersIntersectAndSort ==
    Called("get_kpi_cards") =>
        LET call == Val(s_call)
            cards == s_out.ret
            F == Passing(call.steward, call.domain, call.kpi_only, call.tag_filter)
        IN  /\ IsOk(s_out)
            /\ Len(cards) = Cardinality(F)
            /\ CardIds(cards) = {data.indicators[i].id : i \in F}
            /\ CardIds(cards) =
                   ListedIds(call.steward, None, FALSE, None)
                   \cap ListedIds(None, call.domain, FALSE, None)
                   \cap ListedIds(None, None, call.kpi_only, None)
                   \cap ListedIds(None, None, FALSE, call.tag_filter)
            /\ \A k \in 1..(Len(cards) - 1) :
                   LET a == StoredIndicator(cards[k].indicator)
                       b == StoredIndicator(cards[k + 1].indicator)
                   IN  \/ StrLess(a.domain, b.domain)
                       \/ a.domain = b.domain /\ StrLessEq(a.name, b.name)

\* Steward CSDO and tag ACCELERATOR on a catalog that holds a Community
\* indicator before two Adoption indicators: the two indicators that pass
\* both filters are listed, Adoption first.
C19_Witness ==
    /\ Called("get_kpi_cards")
    /\ Val(s_call).steward = Some("CSDO")
    /\ Val(s_call).domain = None
    /\ ~Val(s_call).kpi_only
    /\ Val(s_call).tag_filter = Some("ACCELERATOR")
    /\ Len(data.indicators) = 3
    /\ data.indicators[1].id = "HL7-7"
    /\ data.indicators[2].id = "CSDO-14"
    /\ data.indicators[3].id = "CSDO-2"
    /\ IsOk(s_out)
    /\ Len(s_out.ret) = 2
    /\ s_out.ret[1].indicator = "CSDO-14"
    /\ s_out.ret[2].indicator = "HL7-7"

\* The positions of the catalog's indicators.
Stored == 1..Len(data.indicators)

\* The returned list holds the indicators at the positions S of the catalog,
\* each once.
ReturnsExactly(list, S) ==
    /\ Len(list) = Cardinality(S)
    /\ Range(list) = {data.indicators[i] : i \in S}

\* C20: get_indicator_by_id returns the indicator stored under exactly the
\* given id and None for any other id; get_indicators_by_steward returns
\* exactly the indicators whose steward list holds the steward at any
\* position; get_indicators_by_domain returns exactly those whose domain
\* equals the argument; an unknown steward or domain gives the empty list,
\* and no lookup raises.
C20_StoreLookups ==
    /\ Called("get_indicator_by_id") =>
           LET id == Val(s_call).indicator_id
               hits == {i \in Stored : data.indicators[i].id = id}
           IN  /\ IsOk(s_out)
               /\ hits = {} => s_out.ret = None
               /\ \A i \in hits : s_out.ret = Some(data.indicators[i])
    /\ Called("get_indicators_by_steward") =>
           LET steward == Val(s_call).steward
               hits == {i \in Stored :
                          \E k \in 1..Len(data.indicators[i].stewards) :
                              data.indicators[i].stewards[k] = steward}
           IN  /\ IsOk(s_out)
               /\ ReturnsExactly(s_out.ret, hits)
               /\ steward \in {"", "ONC"} => s_out.ret = <<>>
    /\ Called("get_indicators_by_domain") =>
           LET domain == Val(s_call).domain
               hits == {i \in Stored : data.indicators[i].domain = domain}
           IN  /\ IsOk(s_out)
               /\ ReturnsExactly(s_out.ret, hits)
               /\ domain \in {<<>>, DomOther} => s_out.ret = <<>>

\* A lookup by a steward that is the second steward of one indicator and
\* the first of another.
C20_Witness ==
    /\ Called("get_indicators_by_steward")
    /\ Val(s_call).steward = "HL7 International"
    /\ Len(data.indicators) = 3
    /\ data.indicators[1].id = "CSDO-2"
    /\ data.indicators[2].id = "CSDO-14"
    /\ data.indicators[3].id = "HL7-1"
    /\ s_out = Ok(<<data.indicators[1], data.indicators[3]>>)

\* A lookup by an id that the catalog holds and one by an id it does not.
C20_WitnessById ==
    /\ Called("get_indicator_by_id")
    /\ Val(s_call).indicator_id = "CSDO-14"
    /\ IsSome(s_out.ret)
    /\ Val(s_out.ret).id = "CSDO-14"

C20_WitnessUnknownId ==
    /\ Called("get_indicator_by_id")
    /\ Val(s_call).indicator_id = "HL7-99"
    /\ data.indicators # <<>>
    /\ s_out = Ok(None)

C21_ProgressNeverRaises ==
    calc_pc = "calculate_progress_to_target" => IsOk(calc_out)

\* Readings of the card inputs: two signs and zero.
CardReadings == {-5, 0, 97}

\* create_kpi_card takes a stored indicator: one of the engine's indicators
\* with the id the card carries.
CardInputs(periods) ==
    {[id |-> "HL7-1", measurements |-> i.measurements, target |-> i.target,
      targets |-> i.targets, target_operation |-> i.target_operation] :
        i \in Indicators(periods, CardReadings, {}, {100},
                         TargetDicts({100}), Opt({"sum"}))}

InitCard ==
    /\ kpi_periods \in PeriodLists
    /\ kpi_indicator \in CardInputs(kpi_periods)
    /\ calc_pc = "ready"
    /\ calc_out = None
    /\ SvcIdle
    /\ FinIdle
    /\ ParseIdle
    /\ StoreIdle

\* DataService.create_kpi_card(indicator) on the loaded catalog
CreateKpiCard ==
    /\ calc_pc = "ready"
    /\ calc_out' = create_kpi_card(kpi_periods, kpi_periods, kpi_periods,
                                   kpi_periods, kpi_indicator)
    /\ calc_pc' = "create_kpi_card"
    /\ UNCHANGED <<kpi_periods, kpi_indicator, svcVars, finVars, parseVars, storeVars>>

NextCard == CreateKpiCard

SpecCard == InitCard /\ [][NextCard]_vars

CardDone == calc_pc = "create_kpi_card" /\ IsOk(calc_out)

\* The value of the measurement of the latest period, None without one.
LatestReading(periods, indicator) ==
    IF LatestLabel(periods) \in DOMAIN indicator.measurements
    THEN indicator.measurements[LatestLabel(periods)].value
    ELSE None

\* C29: on a catalog with at least two time periods, the trend of a card is
\* defined exactly when current_value and previous_value both are, its
\* current and previous are then those two values, and current_value is the
\* reading of the latest period whatever the progress was computed from.
C29_CardValuesAgreeWithTrend ==
    (CardDone /\ Len(kpi_periods) >= 2) =>
        LET card == calc_out.ret
        IN  /\ IsSome(card.trend) <=>
                   (IsSome(card.current_value) /\ IsSome(card.previous_value))
            /\ IsSome(card.trend) =>
                   /\ Val(card.trend).current = R(Val(card.current_value))
                   /\ Val(card.trend).previous = R(Val(card.previous_value))
            /\ card.current_value = LatestReading(kpi_periods, kpi_indicator)

\* A card of a sub-period catalog stored latest first, with a trend and
\* with a progress computed from the sum of the year.
C29_Witness ==
    /\ CardDone
    /\ kpi_periods = <<L2025T2, L2025T1>>
    /\ calc_out.ret.current_value = Some(97)
    /\ calc_out.ret.previous_value = Some(-5)
    /\ IsSome(calc_out.ret.trend)
    /\ calc_out.ret.target_type = Some("annual")
    /\ calc_out.ret.progress_to_target = Some(R(92))

(***************************************************************************)
(* Claims about the year and the grouped fields of a document              *)
(***************************************************************************)
\* The first four characters of the stem are decimal digits.
NumericYearPrefix(stem) ==
    Len(stem) >= 4 /\ \A i \in 1..4 : stem[i] \in 48..57

\* The TaxYr element holds a number.
NumericTaxYr(doc) ==
    IsSome(doc.TaxYr) /\ IsOk(ParseNumber(Val(doc.TaxYr)))

\* C22: a document whose file name has no four-digit numeric prefix takes
\* its year from its TaxYr element, and the extraction fails for lack of a
\* year only when neither the file name nor TaxYr yields one.
C22_YearFallsBackToDocument ==
    (SingleDone /\ p_batch[1] \in YearDocuments) =>
        LET doc == p_batch[1]
        IN  /\ (~NumericYearPrefix(doc.stem) /\ NumericTaxYr(doc)) =>
                   /\ IsSome(p_out)
                   /\ Val(p_out).year = ParseNumber(Val(doc.TaxYr)).ret
            /\ IsNone(p_out) =>
                   (~NumericYearPrefix(doc.stem) /\ ~NumericTaxYr(doc))

\* The groups whose description contains one of the texts, case ignored.
Matching(groups, texts) ==
    SelectSeq(groups,
              LAMBDA g : \E t \in texts : Contains(Lower(Val(g.Desc)), Lower(t)))

\* The amount of the first group of the sequence, None for an empty one.
FirstAmount(groups, amount(_)) ==
    IF groups = <<>> THEN None ELSE Some(ParseNumber(Val(amount(groups[1]))).ret)

\* The other-expense groups that have a number as their amount.
WithAmount(groups) ==
    SelectSeq(groups, LAMBDA g : IsOk(ParseNumber(Val(g.TotalAmt))))

GroupedDone == SingleDone /\ p_batch[1] \in GroupedDocuments /\ IsSome(p_out)

\* C23: a grouped field takes the amount of the first group in document
\* order whose description contains the category's text, case ignored, for
\* the other-expense categories and the program-service sub-categories
\* alike, and is None when no group matches.
C23_FirstMatchSuppliesValue ==
    GroupedDone =>
        LET section == Val(p_batch[1].IRS990)
            record == Val(p_out)
        IN  /\ record.membership_dues =
                   FirstAmount(Matching(section.ProgramServiceRevenueGrp,
                                        {TextMemberDues, TextMembershipDues}),
                               LAMBDA g : g.TotalRevenueColumnAmt)
            /\ record.meetings_conferences =
                   FirstAmount(Matching(section.ProgramServiceRevenueGrp,
                                        {TextMeetings, TextConferences}),
                               LAMBDA g : g.TotalRevenueColumnAmt)
            /\ record.equipment_rental =
                   FirstAmount(Matching(WithAmount(section.OtherExpensesGrp),
                                        {TextEquipmentRental}),
                               LAMBDA g : g.TotalAmt)

\* The other-expense half of C23 alone.
C23_OtherExpenseFirstMatch ==
    GroupedDone =>
        Val(p_out).equipment_rental =
            FirstAmount(Matching(WithAmount(Val(p_batch[1].IRS990).OtherExpensesGrp),
                                 {TextEquipmentRental}),
                        LAMBDA g : g.TotalAmt)

\* C24: with mapped the sum of the matched named sub-categories, an absent
\* one counted as 0, other_program_services is program_service_revenue -
\* mapped when mapped < program_service_revenue and None otherwise; when it
\* is present it is strictly positive and mapped + other_program_services
\* is program_service_revenue.
C24_OtherProgramServicesReconciles ==
    (SingleDone /\ IsSome(p_out)) =>
        LET record == Val(p_out)
            mapped == OrZero(record.membership_dues)
                      + OrZero(record.meetings_conferences)
            other == record.other_program_services
        IN  /\ mapped < record.program_service_revenue =>
                   other = Some(record.program_service_revenue - mapped)
            /\ mapped >= record.program_service_revenue => other = None
            /\ IsSome(other) =>
                   /\ Val(other) > 0
                   /\ mapped + Val(other) = record.program_service_revenue

\* Dues of 40 and meetings of 10 in a program-service revenue of 100.
C24_Witness ==
    /\ SingleDone
    /\ IsSome(p_out)
    /\ Val(p_out).membership_dues = Some(40)
    /\ Val(p_out).meetings_conferences = Some(10)
    /\ Val(p_out).program_service_revenue = 100
    /\ Val(p_out).other_program_services = Some(50)

\* Dues and meetings that exceed, and that meet, the program-service revenue.
C24_WitnessNoResidual ==
    /\ SingleDone
    /\ IsSome(p_out)
    /\ Val(p_out).membership_dues = Some(40)
    /\ Val(p_out).meetings_conferences = Some(10)
    /\ Val(p_out).program_service_revenue \in {40, 50}
    /\ Val(p_out).other_program_services = None

\* A get_financial_summary ended with the summary of a snapshot with records.
SummaryDone ==
    /\ f_pc = "done"
    /\ f_op = "summary"
    /\ IsOk(Val(f_result))
    /\ Val(f_result).ret # [empty |-> TRUE]

\* C26: net_income_change is the latest net income minus the previous one
\* and net_income_improvement says whether the latest is strictly greater,
\* latest and previous being the last two records of the year-sorted
\* sequence; with a single record the change is 0 and the flag is false.
C26_NetIncomeChangeOfLastTwoYears ==
    SummaryDone =>
        \E m \in f_seen :
            LET years == SortByYear(m.years)
                summary == Val(f_result).ret
            IN  /\ m.years # <<>>
                /\ Len(years) >= 2 =>
                       /\ summary.net_income_change =
                              Last(years).net_income - Last2(years).net_income
                       /\ summary.net_income_improvement =
                              (Last(years).net_income > Last2(years).net_income)
                /\ Len(years) = 1 =>
                       /\ summary.net_income_change = 0
                       /\ summary.net_income_improvement = FALSE

\* The same with latest and previous the last two records of the snapshot in
\* the order in which it holds them.
C26_NetIncomeChangeOfLastTwoRecords ==
    SummaryDone =>
        \E m \in f_seen :
            LET years == m.years
                summary == Val(f_result).ret
            IN  /\ years # <<>>
                /\ Len(years) >= 2 =>
                       /\ summary.net_income_change =
                              Last(years).net_income - Last2(years).net_income
                       /\ summary.net_income_improvement =
                              (Last(years).net_income > Last2(years).net_income)
                /\ Len(years) = 1 =>
                       /\ summary.net_income_change = 0
                       /\ summary.net_income_improvement = FALSE

\* What a step of refresh_financial_data does when parse_all_forms gives
\* parsed: a new snapshot, the parsed one, is held after a success, the
\* snapshot held before is still held after a failure.
RefreshOutcome(parsed) ==
    IF IsOk(parsed)
    THEN /\ IsSome(cached_data')
         /\ Val(cached_data') = Len(heap) + 1
         /\ Len(heap') = Len(heap) + 1
         /\ heap'[Val(cached_data')] = parsed.ret
    ELSE /\ cached_data' = cached_data
         /\ heap' = heap

\* C28: get_financial_health_metrics returns the held snapshot or raises,
\* never None; while no refresh runs a held snapshot stays the held one and no
\* other is parsed or loaded; a refresh that succeeds holds the freshly
\* parsed snapshot instead, a refresh that fails leaves the held one.
C28_CacheLifeCycle ==
    [][/\ (f_pc = "get_financial_health_metrics" /\ f_pc' # f_pc) =>
              \/ f_pc' = "done" /\ ~IsOk(Val(f_result')) /\ IsNone(cached_data)
              \/ /\ IsSome(f_metrics')
                 /\ f_metrics' = cached_data'
                 /\ IsSome(cached_data) => f_metrics' = cached_data
       /\ (IsSome(cached_data) /\ refreshes' = refreshes) =>
              /\ cached_data' = cached_data
              /\ Len(heap') = Len(heap)
              /\ cache_file' = cache_file
       /\ refreshes' # refreshes => RefreshOutcome(parse_all_forms(xml_dir))
      ]_vars

\* A query got the snapshot that a refresh put in the place of an earlier one.
C28_Witness ==
    /\ f_pc = "done"
    /\ IsOk(Val(f_result))
    /\ refreshes >= 1
    /\ Len(heap) = 2
    /\ heap[1] # heap[2]
    /\ cached_data = Some(2)
    /\ f_metrics = cached_data

\* C27: a reload_data that fails, the file being missing or not loadable,
\* leaves the catalog as it was, a reload that succeeds makes it the catalog
\* of the file, and nothing else changes it: the catalog is always the
\* result of the last successful load, and a query that ran beside no other
\* catalog answers from it.
C27_FailedReloadKeepsCatalog ==
    [][/\ (reloads' # reloads /\ json_file.kind # "json") => data' = data
       /\ (reloads' # reloads /\ json_file.kind = "json") =>
              data' = json_file.catalog
       /\ reloads' = reloads => data' = data
       /\ (q_pc' = "done" /\ q_seen' = {data'}) =>
              q_result' = AtomicResult(q_op', q_steward', data')
      ]_vars

\* A query answered from the catalog after a reload, the file being one
\* that cannot be loaded.
C27_Witness ==
    /\ reloads >= 1
    /\ json_file.kind \in {"missing", "invalid"}
    /\ q_pc = "done"
    /\ q_seen = {data}
    /\ data \in Catalogs
    /\ q_result = AtomicResult(q_op, q_steward, data)

(***************************************************************************)
(* DataService.get_chart_data                                              *)
(***************************************************************************)
\* The most indicators of a trend-comparison chart, line 350
ChartIndicatorLimit == 10

\* The longest name a label shows in full, line 357
ChartLabelLength == 20

\* "..."
TextEllipsis == <<46, 46, 46>>

\* Line 357: the label of an indicator
ChartLabel(name) ==
    IF Len(name) > ChartLabelLength
    THEN SubSeq(name, 1, ChartLabelLength) \o TextEllipsis
    ELSE name

\* s[:n]
FirstN(s, n) == SubSeq(s, 1, IF Len(s) < n THEN Len(s) ELSE n)

\* Lines 351-355: the indicator has a value in both periods.
HasBothValues(indicator, current_period, previous_period) ==
    LET current_measurement == Get(indicator.measurements, current_period)
        previous_measurement == Get(indicator.measurements, previous_period)
    IN  /\ IsSome(current_measurement)
        /\ IsSome(previous_measurement)
        /\ IsSome(Val(current_measurement).value)
        /\ IsSome(Val(previous_measurement).value)

\* The ChartData of lines 361-366 for the indicators given, the first
\* ChartIndicatorLimit of which are looked at.
TrendComparison(indicators, current_period, previous_period) ==
    LET kept == SelectSeq(FirstN(indicators, ChartIndicatorLimit),
                          LAMBDA ind : HasBothValues(ind, current_period,
                                                     previous_period))
        labels == [i \in 1..Len(kept) |-> ChartLabel(kept[i].name)]
        current_values ==
            [i \in 1..Len(kept) |-> Val(kept[i].measurements[current_period].value)]
        previous_values ==
            [i \in 1..Len(kept) |-> Val(kept[i].measurements[previous_period].value)]
    IN  [labels |-> labels, values |-> current_values \o previous_values,
         colors |-> None, type |-> "grouped_bar"]

\* list(domain_counts.keys()), lines 323-326: the domains in the order in
\* which they first occur.
RECURSIVE DomainKeys(_)
DomainKeys(indicators) ==
    IF indicators = <<>> THEN <<>>
    ELSE LET keys == DomainKeys(SubSeq(indicators, 1, Len(indicators) - 1))
             domain == Last(indicators).domain
         IN  IF domain \in Range(keys) THEN keys ELSE Append(keys, domain)

\* The ChartData of lines 328-333
DomainDistribution(indicators) ==
    LET keys == DomainKeys(indicators)
    IN  [labels |-> keys,
         values |-> [i \in 1..Len(keys) |->
                        Cardinality({j \in 1..Len(indicators) :
                                        indicators[j].domain = keys[i]})],
         colors |-> None, type |-> "pie"]

\* The ChartData of lines 317, 339, 343 and 368
EmptyChart == [labels |-> <<>>, values |-> <<>>, colors |-> None, type |-> "bar"]

\* get_chart_data, lines 314-368, on the catalog: the indicators are those
\* of the dict in its insertion order, filtered by the steward if one is
\* given.
get_chart_data(catalog, chart_type, steward) ==
    LET indicators == SelectIndicators(catalog.indicators, steward, None,
                                       FALSE, None)
    IN  IF chart_type = "domain_distribution"
        THEN DomainDistribution(indicators)
        ELSE IF chart_type = "trend_comparison"
        THEN LET time_periods == SortedStrs(catalog.time_periods)
             IN  IF Len(time_periods) < 2 THEN EmptyChart
                 ELSE TrendComparison(indicators, Last(time_periods),
                                      Last2(time_periods))
        ELSE EmptyChart

\* "Ballots of the normative track": a name of more than twenty characters
NameLong == NameBallots \o [i \in 1..20 |-> 115]

\* An indicator of the chart catalogs.
ChartIndicator(id, name, domain, stewards, measurements) ==
    [id |-> id, name |-> name, domain |-> domain, stewards |-> stewards,
     tags |-> <<>>, target |-> None, targets |-> None,
     target_operation |-> None, measurements |-> measurements]

\* Indicators with a value in both years, with no measurement of 2024 and
\* with a measurement of 2024 that has no value, of two domains.
ChartIndicators ==
    {ChartIndicator("HL7-1", NameMembers, DomCommunity, <<"HL7 International">>,
                    (L2024 :> Measurement(Some(95), None)) @@
                    (L2025 :> Measurement(Some(97), None))),
     ChartIndicator("CSDO-2", NameLong, DomAdoption, <<"CSDO", "HL7 International">>,
                    (L2024 :> Measurement(Some(10), None)) @@
                    (L2025 :> Measurement(Some(-5), None))),
     ChartIndicator("CSDO-14", NameTracks, DomAdoption, <<"CSDO">>,
                    (L2025 :> Measurement(Some(3), None))),
     ChartIndicator("HL7-7", NameBallots, DomCommunity, <<"HL7 International">>,
                    (L2024 :> Measurement(None, None)) @@
                    (L2025 :> Measurement(Some(0), None)))}

\* Catalogs of one and of two periods, the indicators in any insertion order.
ChartCatalogs ==
    {[time_periods |-> periods, indicators |-> inds] :
        periods \in {<<L2025>>, <<L2024, L2025>>},
        inds \in {l \in ListsOver(ChartIndicators, MaxIndicators) :
                      \A i, j \in 1..Len(l) : l[i].id = l[j].id => i = j}}

ChartTypes == {"domain_distribution", "trend_comparison", "progress"}

InitChart ==
    /\ \E catalog \in ChartCatalogs :
           /\ json_file = [kind |-> "json", catalog |-> catalog]
           /\ data = catalog
    /\ reloads = 0
    /\ q_pc = "idle"
    /\ q_op = ""
    /\ q_steward = None
    /\ q_indicators = <<>>
    /\ q_cards = <<>>
    /\ q_loc = None
    /\ q_summary = None
    /\ q_result = None
    /\ q_seen = {}
    /\ queries = 0
    /\ http_resp = None
    /\ s_call = None
    /\ s_pc = "ready"
    /\ s_out = None
    /\ CalcIdle
    /\ FinIdle
    /\ ParseIdle

\* data_service.get_chart_data(chart_type, steward)
GetChartData ==
    /\ s_pc = "ready"
    /\ \E chart_type \in ChartTypes, steward \in StewardArgs :
           /\ s_call' = Some([op |-> "get_chart_data", chart_type |-> chart_type,
                              steward |-> steward])
           /\ s_out' = Ok(get_chart_data(data, chart_type, steward))
    /\ s_pc' = "returned"
    /\ UNCHANGED <<calcVars, svcVars, finVars, parseVars>>

NextChart == GetChartData

SpecChart == InitChart /\ [][NextChart]_vars

(***************************************************************************)
(* Claims about the trend-comparison chart                                 *)
(***************************************************************************)
TrendChartDone ==
    /\ Called("get_chart_data")
    /\ Val(s_call).chart_type = "trend_comparison"
    /\ Len(data.time_periods) >= 2

\* The chart of the indicators given: the labels of those with a value in
\* both of the latest periods, their current values, then their previous
\* values.
ChartOf(indicators) ==
    LET current_period == LatestLabel(data.time_periods)
        previous_period ==
            LatestLabel(SelectSeq(data.time_periods,
                                  LAMBDA p : p # current_period))
        kept == SelectSeq(indicators,
                          LAMBDA ind : HasBothValues(ind, current_period,
                                                     previous_period))
    IN  [labels |-> [i \in 1..Len(kept) |-> ChartLabel(kept[i].name)],
         values |->
            [i \in 1..Len(kept) |->
                Val(kept[i].measurements[current_period].value)]
            \o [i \in 1..Len(kept) |->
                Val(kept[i].measurements[previous_period].value)]]

\* C25: the trend-comparison chart shows the first ten indicators of the
\* steward-filtered set in the listing order (domain, then name) without
\* those that lack a current or a previous value: at most ten labels, and
\* twice as many values, the current ones followed by the previous ones.
C25_ChartOfFirstTenListed ==
    TrendChartDone =>
        LET steward == Val(s_call).steward
            listed == CardIndicators(data, steward, None, FALSE, None)
            chart == ChartOf(FirstN(listed, ChartIndicatorLimit))
        IN  /\ s_out.ret.labels = chart.labels
            /\ s_out.ret.values = chart.values
            /\ Len(s_out.ret.labels) <= ChartIndicatorLimit
            /\ Len(s_out.ret.values) = 2 * Len(s_out.ret.labels)

\* The same for the indicators in the order in which the catalog holds them.
C25_ChartOfFirstTenStored ==
    TrendChartDone =>
        LET steward == Val(s_call).steward
            stored == SelectSeq(data.indicators,
                                LAMBDA ind : SuppliedName(steward) =>
                                                 Val(steward) \in Range(ind.stewards))
            chart == ChartOf(FirstN(stored, ChartIndicatorLimit))
        IN  /\ s_out.ret.labels = chart.labels
            /\ s_out.ret.values = chart.values
            /\ Len(s_out.ret.labels) <= ChartIndicatorLimit
            /\ Len(s_out.ret.values) = 2 * Len(s_out.ret.labels)

=============================================================================
